---- MODULE Spec2Model ----
(***************************************************************************)
(* go-cache: the LRU store (pkg/lru), the single-flight loader             *)
(* (internal/singleflight) and the cache Group (internal/cache).           *)
(*                                                                         *)
(* SpecLRU    sequential calls on one lru.Cache, with a clock.             *)
(* SpecSF     concurrent singleflight.Group.Do calls with an abstract fn.  *)
(* SpecGroup  concurrent Group.Get / Group.Delete calls on one Group.      *)
(***************************************************************************)
EXTENDS Integers, Sequences, FiniteSets, TLC

(***************************************************************************)
(* Bounds and small input sets                                             *)
(***************************************************************************)
\* Last clock reading (seconds after the start) the model reaches.
MaxClock == 2
\* Model width of int64. TLC's integers are 32 bits wide, so the 64-bit
\* seconds counter of time.Time is modelled at this width; every value keeps
\* its place relative to the wrap-around point.
IntBits == 12

NoVal == <<>>
\* Non-empty byte strings stored as values.
Values == {<<1>>, <<1, 2>>}
\* Keys given to lru.Cache; the empty key is a legal key there.
LruKeys == {"", "a", "bb"}
\* ttl arguments of Add: negative, zero (no TTL requested) and positive.
TTLs == {-1, 0, 1}
\* Memory limits given to lru.New: negative, unlimited, and limits that hold
\* one or two of the entries above.
MaxBytesChoices == {-1, 0, 5}

(***************************************************************************)
(* time.Time (seconds since year 1, an int64)                              *)
(***************************************************************************)
MaxInt64 == 2 ^ (IntBits - 1) - 1
\* int64 arithmetic wraps around.
WrapInt64(x) == ((x + 2 ^ (IntBits - 1)) % (2 ^ IntBits)) - 2 ^ (IntBits - 1)
\* Offset between the Unix epoch and the internal epoch (year 1) that
\* time.Unix adds to its argument. Positive and far below MaxInt64.
UnixToInternal == 2 ^ (IntBits - 6)
\* time.Unix(sec, 0): the int64 addition overflows for sec near MaxInt64.
TimeUnix(sec) == WrapInt64(sec + UnixToInternal)
\* The Unix time at which the process started: a present-day date, positive
\* and far below MaxInt64.
StartUnix == 2 ^ (IntBits - 7)
\* time.Now() when the clock reads `clock` seconds after the start.
TimeNow(clock) == TimeUnix(StartUnix + clock)
\* t.Add(d)
TimeAdd(t, d) == WrapInt64(t + d)
\* t.Before(u)
Before(t, u) == t < u

(***************************************************************************)
(* container/list and map helpers                                          *)
(***************************************************************************)
Range(s) == {s[i] : i \in DOMAIN s}
\* l.Remove(e): no effect when e is not an element of l.
ListRemove(l, e) == SelectSeq(l, LAMBDA x : x # e)
\* l.MoveToBack(e): no effect when e is not an element of l.
MoveToBack(l, e) == IF e \in Range(l) THEN Append(ListRemove(l, e), e) ELSE l
MapDelete_Keep(f, k) == f
MapDelete(f, k) == [x \in (DOMAIN f) \ {k} |-> f[x]]
MapPut(f, k, v) == [x \in (DOMAIN f) \cup {k} |-> IF x = k THEN v ELSE f[x]]

(***************************************************************************)
(* lru.Cache                                                               *)
(*   ll     recency list of elements, Front (index 1) = least recent       *)
(*   cache  index key -> element                                           *)
(*   ents   the entry {key, value, exp} each element points to             *)
(***************************************************************************)
\* Elements are heap objects; an identity is free again once nothing refers
\* to it. One identity per key plus one per concurrent caller suffices.
EleIds == 1 .. (Cardinality(LruKeys) + 3)
NoEle == 0
NoEntry == [key |-> "", value |-> NoVal, exp |-> 0]

\* lru.New(maxBytes, nil)
New(maxBytes) ==
    [maxBytes |-> maxBytes, nbytes |-> 0, ll |-> <<>>, cache |-> <<>>,
     ents |-> [e \in EleIds |-> NoEntry]]

Live(c, refs) == Range(c.ll) \cup {c.cache[k] : k \in DOMAIN c.cache} \cup refs
\* A newly allocated element.
FreshEle(c, refs) ==
    CHOOSE e \in EleIds : e \notin Live(c, refs) /\ \A f \in EleIds : f < e => f \in Live(c, refs)
\* Element identities are addresses and carry no meaning: rename them so that
\* the list holds 1..n in order and the elements only referred to from
\* outside the list follow. Entries nothing refers to are garbage.
Stale(c, refs) == Live(c, refs) \ Range(c.ll)
Renamed(c, refs, e) ==
    IF e \in Range(c.ll) THEN CHOOSE i \in DOMAIN c.ll : c.ll[i] = e
    ELSE IF e \in Stale(c, refs) THEN Len(c.ll) + Cardinality({f \in Stale(c, refs) : f <= e})
    ELSE NoEle
Collect(c, refs) ==
    LET n == Len(c.ll)
        stale == Stale(c, refs)
    IN [c EXCEPT !.ll = [i \in DOMAIN c.ll |-> i],
                 !.cache = [k \in DOMAIN c.cache |-> Renamed(c, refs, c.cache[k])],
                 !.ents = [id \in EleIds |->
                             IF id <= n THEN c.ents[c.ll[id]]
                             ELSE IF id <= n + Cardinality(stale)
                                  THEN c.ents[CHOOSE e \in stale :
                                                 Cardinality({f \in stale : f <= e}) = id - n]
                             ELSE NoEntry]]

EntrySize(kv) == Len(kv.key) + Len(kv.value)

\* The expiry Add stores: now + ttl for ttl > 0, else time.Unix(math.MaxInt64, 0).
Expiry_NoNow(ttl, clock) == IF ttl > 0 THEN TimeAdd(TimeNow(0), ttl) ELSE TimeUnix(MaxInt64)
Expiry(ttl, clock) == IF ttl > 0 THEN TimeAdd(TimeNow(clock), ttl) ELSE TimeUnix(MaxInt64)

\* kv.exp.Before(now) in Get
Expired(kv, clock) == Before(kv.exp, TimeNow(clock))

\* Get, first part (under RLock): the index lookup.
GetLookup(c, key) == IF key \in DOMAIN c.cache THEN c.cache[key] ELSE NoEle

\* Get, second part (under Lock) for the element `ele` found by the lookup.
GetLocked_NoMove(c, key, ele, clock) ==
    LET kv == c.ents[ele] IN
    IF Expired(kv, clock)
    THEN [c |-> [c EXCEPT !.ll = ListRemove(c.ll, ele),
                          !.cache = MapDelete(c.cache, key),
                          !.nbytes = @ - (Len(key) + Len(kv.value))],
          value |-> NoVal, ok |-> FALSE]
    ELSE [c |-> c, value |-> kv.value, ok |-> TRUE]
GetLocked(c, key, ele, clock) ==
    LET kv == c.ents[ele] IN
    IF Expired(kv, clock)
    THEN [c |-> [c EXCEPT !.ll = ListRemove(c.ll, ele),
                          !.cache = MapDelete(c.cache, key),
                          !.nbytes = @ - (Len(key) + Len(kv.value))],
          value |-> NoVal, ok |-> FALSE]
    ELSE [c |-> [c EXCEPT !.ll = MoveToBack(c.ll, ele)],
          value |-> kv.value, ok |-> TRUE]

\* Get when nothing runs between its two parts.
Get(c, key, clock) ==
    LET ele == GetLookup(c, key) IN
    IF ele # NoEle THEN GetLocked(c, key, ele, clock)
    ELSE [c |-> c, value |-> NoVal, ok |-> FALSE]

\* removeOldest: drops the Front element, nothing when the list is empty.
removeOldest_Back(c) ==
    IF c.ll = <<>> THEN c
    ELSE LET element == c.ll[Len(c.ll)]
             kv == c.ents[element]
         IN [c EXCEPT !.ll = ListRemove(c.ll, element),
                      !.cache = MapDelete(c.cache, kv.key),
                      !.nbytes = @ - EntrySize(kv)]
removeOldest(c) ==
    IF c.ll = <<>> THEN c
    ELSE LET element == c.ll[1]
             kv == c.ents[element]
         IN [c EXCEPT !.ll = ListRemove(c.ll, element),
                      !.cache = MapDelete(c.cache, kv.key),
                      !.nbytes = @ - EntrySize(kv)]

\* Add's loop condition.
OverLimit_Off(c) == c.maxBytes # 0 /\ c.nbytes > c.maxBytes + 1
OverLimit(c) == c.maxBytes # 0 /\ c.nbytes > c.maxBytes

\* Add's eviction loop. It never ends when the list is empty and the
\* condition still holds: removeOldest changes nothing then (hangs).
RECURSIVE EvictLoop(_, _)
EvictLoop(c, evicted) ==
    IF ~OverLimit(c) THEN [c |-> c, evicted |-> evicted, hangs |-> FALSE]
    ELSE IF c.ll = <<>> THEN [c |-> c, evicted |-> evicted, hangs |-> TRUE]
    ELSE EvictLoop(removeOldest(c), Append(evicted, c.ents[c.ll[1]].key))

\* Add before its eviction loop: replace or insert.
AddEntry(c, key, value, ttl, clock, fresh) ==
    IF key \in DOMAIN c.cache
    THEN LET ele == c.cache[key]
             kv == c.ents[ele]
         IN [c EXCEPT !.ll = MoveToBack(c.ll, ele),
                      !.nbytes = @ + Len(value) - Len(kv.value),
                      !.ents[ele].value = value,
                      !.ents[ele].exp = Expiry(ttl, clock)]
    ELSE [c EXCEPT !.ll = Append(c.ll, fresh),
                   !.ents[fresh] = [key |-> key, value |-> value, exp |-> Expiry(ttl, clock)],
                   !.cache = MapPut(c.cache, key, fresh),
                   !.nbytes = @ + Len(key) + Len(value)]

\* Add: [c, evicted (keys in eviction order), hangs]
Add(c, key, value, ttl, clock, fresh) ==
    EvictLoop(AddEntry(c, key, value, ttl, clock, fresh), <<>>)

\* Clear
Clear_KeepBytes(c) == [c EXCEPT !.ll = <<>>, !.cache = <<>>]
Clear(c) == [c EXCEPT !.ll = <<>>, !.cache = <<>>, !.nbytes = 0]

\* Delete: [c, ok]
Delete_Any(c, key) ==
    IF c.ll # <<>>
    THEN LET ele == c.ll[1]
             kv == c.ents[ele]
         IN [c |-> [c EXCEPT !.ll = ListRemove(c.ll, ele),
                             !.cache = MapDelete(c.cache, kv.key),
                             !.nbytes = @ - (Len(key) + Len(kv.value))],
             ok |-> TRUE]
    ELSE [c |-> c, ok |-> FALSE]
Delete(c, key) ==
    IF key \in DOMAIN c.cache
    THEN LET ele == c.cache[key]
             kv == c.ents[ele]
         IN [c |-> [c EXCEPT !.ll = ListRemove(c.ll, ele),
                             !.cache = MapDelete(c.cache, key),
                             !.nbytes = @ - (Len(key) + Len(kv.value))],
             ok |-> TRUE]
    ELSE [c |-> c, ok |-> FALSE]

\* Keys in recency order, least recent first.
KeysInOrder(c) == [i \in DOMAIN c.ll |-> c.ents[c.ll[i]].key]

(***************************************************************************)
(* State                                                                   *)
(***************************************************************************)
VARIABLES
    now,      \* the wall clock, seconds after the start
    lc,       \* SpecLRU: the lru.Cache
    lhung,    \* SpecLRU: an Add is stuck in its eviction loop
    last,     \* SpecLRU: the last call and what it returned
    added,    \* SpecLRU: per key, the time and ttl of the Add that stored it
    used,     \* SpecLRU: keys in order of last use (Get hit or Add)
    m,        \* singleflight.Group.m: key -> in-flight call
    calls,    \* the call objects and the doCall goroutine of each
    procs,    \* the callers: where each is and what it holds
    res,      \* per caller, the result of the call it last returned from
    count,    \* calls started so far
    grp,      \* SpecGroup: the Group's ttl, cacheBytes and whether peers are registered
    mc,       \* SpecGroup: Group.mainCache (the lru.Cache, created lazily, and stats)
    loads,    \* SpecGroup: per key, the calls of the origin getter and its last reply
    hist,     \* SpecGroup: what has happened so far (see NoHist)
    ring,     \* SpecRing: the consistenthash.Map
    rop,      \* SpecRing: the last call on the Map and its result
    reg,      \* SpecFront: the cache node's registry of Groups (groups, by name)
    gop,      \* SpecFront: the last NewGroup or GetGroup and what it returned
    fd,       \* SpecFront: the front-door's CacheHandler (protocol, nodeGetters)
    req,      \* SpecFront: the last request served and its answer
    etcd,     \* SpecDisc: the etcd store (keys under the service prefix, leases)
    sd,       \* SpecDisc: each cache node's ServiceDiscovery
    sw,       \* SpecDisc: the front-door's ServiceWatcher goroutine
    api,      \* SpecDisc: the ApiServer's receive loop and its NodeHandler
    dop,      \* SpecDisc: the last Register or Unregister and what it did
    cn,       \* SpecNode: the cachenode process (its --ttl flag, loads, last Get)
    sr,       \* SpecReg: one ServiceDiscovery with its goroutines, and etcd's leases
    hm,       \* SpecPeers: CacheHandler.mu and the goroutines inside UpdatePeers and pickNode
    ord,      \* SpecOrder: two consistenthash.Maps given the same nodes in two orders
    wt,       \* SpecWatch: the goroutine of ServiceWatcher.Watch, its channels and its consumer
    gc,       \* SpecClose: one GRPCGetter, the requests that hold it and the UpdatePeers that closes it
    mesh      \* SpecMesh: two cache nodes, their HTTPPools and their loads of one key

lruVars == <<lc, lhung, last, added, used>>
sfVars == <<m, calls, procs, res, count>>
grpVars == <<grp, mc, loads, hist>>
regVars == <<reg, gop>>
frontVars == <<fd, req>>
discVars == <<etcd, sd, sw, api, dop>>
moreVars == <<ord, wt, gc, mesh>>
extVars == <<cn, sr, hm, moreVars>>
netVars == <<ring, rop, regVars, frontVars, discVars, extVars>>
coreVars == <<now, lruVars, sfVars, grpVars>>
vars == <<coreVars, netVars>>

\* added[k]: "no" when k was not added (or was evicted, deleted, cleared since),
\* else the value of the last Add, whether it asked for no TTL (ttl <= 0), and
\* its deadline t + ttl otherwise.
NotAdded == [in |-> FALSE, value |-> NoVal, never |-> FALSE, deadline |-> 0]
\* last: the call that just returned, its result, and for an Add the keys it
\* evicted (in order), the bytes its last eviction freed and the last-use
\* order it started from (the added key already moved to the end) and whether
\* the key was in the cache (the Add replaced its value).
NoCall == [op |-> "none", key |-> "", ok |-> FALSE, value |-> NoVal,
           evicted |-> <<>>, freed |-> 0, order |-> <<>>, had |-> FALSE]
Called(op, key, ok, value) == [NoCall EXCEPT !.op = op, !.key = key, !.ok = ok, !.value = value]

\* Last-use order: the key becomes the most recently used one.
Touch(u, key) == Append(SelectSeq(u, LAMBDA k : k # key), key)
Forget(u, keys) == SelectSeq(u, LAMBDA k : k \notin keys)

(***************************************************************************)
(* consistenthash.Map                                                      *)
(***************************************************************************)
\* Node names given to Add and Remove.
RingNodes == {"n1", "n2", "n3"}
\* Keys given to Get.
RingKeys == {"a", "bb", "ccc", "dddd"}
\* Largest value of the hash function in the model.
HashMax == 3
HashRange == 0 .. HashMax
\* Largest number of virtual nodes per node.
MaxReplicas == 2
\* Add is not called once the key list is this long.
MaxRingLen == 4
\* strconv.Itoa(i) + key: the name of virtual node i of a node.
VName(i, node) ==
    CASE node = "n1" -> <<"0n1", "1n1", "2n1">>[i + 1]
      [] node = "n2" -> <<"0n2", "1n2", "2n2">>[i + 1]
      [] node = "n3" -> <<"0n3", "1n3", "2n3">>[i + 1]
VNames == {VName(i, n) : i \in 0 .. (MaxReplicas - 1), n \in RingNodes}
\* The Hash functions of the model: any values on the virtual node names,
\* and on the keys one value each, so every point of the ring is asked for.
KeyHash == [k \in RingKeys |-> (Len(k) - 1) % (HashMax + 1)]
Hashes == {vh @@ KeyHash : vh \in [VNames -> HashRange]}

\* New(replicas, fn)
MapNew(replicas, fn) == [replicas |-> replicas, hash |-> fn, keys |-> <<>>, hashMap |-> <<>>]
NoRing == MapNew(0, KeyHash)

\* sort.Ints
RECURSIVE SortInts(_)
SortInts(s) ==
    IF s = <<>> THEN <<>>
    ELSE LET lo == CHOOSE x \in Range(s) : \A y \in Range(s) : x <= y
             i == CHOOSE j \in DOMAIN s : s[j] = lo
         IN <<lo>> \o SortInts(SubSeq(s, 1, i - 1) \o SubSeq(s, i + 1, Len(s)))

\* Add: the inner loop over the virtual nodes i, i+1, ... of one node.
RECURSIVE AddReplicas(_, _, _)
AddReplicas(mp, key, i) ==
    IF i >= mp.replicas THEN mp
    ELSE LET hash == mp.hash[VName(i, key)] IN
         AddReplicas([mp EXCEPT !.keys = Append(@, hash), !.hashMap = MapPut(@, hash, key)],
                     key, i + 1)
\* Add: the outer loop over the given nodes.
RECURSIVE AddKeys(_, _)
AddKeys(mp, keys) ==
    IF keys = <<>> THEN mp ELSE AddKeys(AddReplicas(mp, Head(keys), 0), Tail(keys))
\* Add(keys...)
MapAdd(mp, keys) == LET a == AddKeys(mp, keys) IN [a EXCEPT !.keys = SortInts(@)]

\* sort.Search(n, f): binary search for the smallest index in [0, n) at which
\* f holds, n if there is none. keys is indexed from 0 as in the code.
RECURSIVE Search(_, _, _, _)
Search(keys, hash, i, j) ==
    IF i < j
    THEN LET h == (i + j) \div 2 IN
         IF ~(keys[h + 1] >= hash) THEN Search(keys, hash, h + 1, j) ELSE Search(keys, hash, i, h)
    ELSE i
\* Get: the index to use when the search ran off the end.
WrapIdx_Last(idx, n) == IF idx = n THEN n - 1 ELSE idx
WrapIdx(idx, n) == IF idx = n THEN 0 ELSE idx
\* Get(key)
MapGet(mp, key) ==
    IF Len(mp.keys) = 0 THEN ""
    ELSE LET hash == mp.hash[key]
             idx == WrapIdx(Search(mp.keys, hash, 0, Len(mp.keys)), Len(mp.keys))
         IN mp.hashMap[mp.keys[idx + 1]]

\* Remove: the entries of hashMap that are kept.
Kept_All(mp, key) == DOMAIN mp.hashMap
Kept(mp, key) == {h \in DOMAIN mp.hashMap : mp.hashMap[h] # key}
\* The keys of a set in increasing order (appended in map order, then sorted).
RECURSIVE SeqOfSet(_)
SeqOfSet(S) == IF S = {} THEN <<>> ELSE LET x == CHOOSE y \in S : TRUE IN <<x>> \o SeqOfSet(S \ {x})
\* Remove(key): make() panics on a negative capacity, before anything is
\* changed; otherwise keys and hashMap are rebuilt from the kept entries.
MapRemove(mp, key) ==
    IF Len(mp.keys) - mp.replicas < 0
    THEN [m |-> mp, panic |-> TRUE]
    ELSE [m |-> [mp EXCEPT !.keys = SortInts(SeqOfSet(Kept(mp, key))),
                           !.hashMap = [h \in Kept(mp, key) |-> mp.hashMap[h]]],
          panic |-> FALSE]
\* The nodes the Map can return.
MapNodes(mp) == Range(mp.hashMap)

\* rop: the call that just returned.
NoRop == [op |-> "none", arg |-> "", result |-> "", panic |-> FALSE]
(***************************************************************************)
(* cache: the registry of Groups (groups, NewGroup, GetGroup)              *)
(***************************************************************************)
GroupNames == {"scores", "other"}
\* Groups created in one run.
MaxGroups == 2
\* A *Group is modelled by the number of the NewGroup call that made it.
NoInstance == 0
\* groups: name -> *Group; made: instances made so far; first: per name, the
\* instance its first NewGroup returned.
NoReg == [groups |-> [n \in GroupNames |-> NoInstance], made |-> 0,
          first |-> [n \in GroupNames |-> NoInstance]]
NoGop == [op |-> "none", name |-> "", result |-> NoInstance]
\* NewGroup(name, ...): groups[name] = g, whatever was registered before.
Registered_Once(r, name, g) == IF r.groups[name] = NoInstance THEN g ELSE r.groups[name]
Registered(r, name, g) == g
NewGroup(r, name) ==
    LET g == r.made + 1 IN
    [r EXCEPT !.made = g, !.groups[name] = Registered(r, name, g),
              !.first[name] = IF @ = NoInstance THEN g ELSE @]
\* GetGroup(name)
GetGroup(r, name) == r.groups[name]

(***************************************************************************)
(* Errors (cache.CacheError, fmt.Errorf, grpc status) and requests         *)
(***************************************************************************)
\* An error is modelled by its type (the CacheError type; "plain" for an
\* error of fmt.Errorf; "status" for an error of the grpc status package),
\* its grpc code, and the words of WordList that occur in its message.
NoErr == [type |-> "nil", code |-> "OK", text |-> {}]
\* req: the request that was just answered. origin: the replies the origin
\* getter gave while it was served; gerr: the error the NodeGetter returned.
NoReq == [op |-> "none", method |-> "", proto |-> "", group |-> "", tail |-> <<>>, asked |-> <<>>,
          node |-> "", calls |-> 0, origin |-> <<>>, gerr |-> NoErr, code |-> "",
          status |-> 0, ctype |-> "", body |-> <<>>]
\* NewCacheHandler: no nodeGetters yet.
NoFd == [protocol |-> "http", getters |-> {}]

(***************************************************************************)
(* discovery: etcd, ServiceDiscovery, ServiceWatcher                       *)
(***************************************************************************)
\* The cache nodes that register.
DiscNodes == {"n1", "n2"}
\* Leases granted in one run.
MaxLeases == 3
\* Watch events waiting for the watcher at one time.
MaxEvents == 2
\* A lease ID that is no lease (sd.leaseID = 0; a key that is not stored).
NoLease == 0
\* etcd: keys[n] is the lease of the key "/service/n" (NoLease: no such
\* key); leases are the live leases; granted counts the leases granted;
\* events are the events queued on the watcher's watch channel.
NoEtcd == [keys |-> [n \in DiscNodes |-> NoLease], leases |-> {}, granted |-> 0, events |-> 0]
\* NewServiceDiscovery; ka is the lease whose keepAlive goroutine runs.
NoSd == [n \in DiscNodes |-> [registered |-> FALSE, leaseID |-> NoLease, ka |-> NoLease]]
\* ServiceWatcher.Watch has been called: its goroutine is about to get the
\* node list for the first time. watching: the etcd watch has been created.
NoSw == [pc |-> "sync", first |-> TRUE, watching |-> FALSE, peers |-> {}, gap |-> FALSE]
\* ApiServer.Start: nothing received yet; NewNodeHandler: no addresses.
NoApi == [got |-> FALSE, services |-> {}, nodeAddresses |-> {}]
\* dop: the call of Register or Unregister that the last step was.
NoDop == [op |-> "none", node |-> "", err |-> FALSE]
DiscIdle ==
    /\ etcd = NoEtcd
    /\ sd = NoSd
    /\ sw = NoSw
    /\ api = NoApi
    /\ dop = NoDop

\* The cachenode process is not modelled: no flag read, nothing loaded.
NoTime == -1
NoGot == [key |-> "", hit |-> FALSE, since |-> NoTime]
NoNode == [ttl |-> 0, loaded |-> [k \in LruKeys |-> NoTime], got |-> NoGot]
\* NewServiceDiscovery: not registered, an open stopChan (number gen), no
\* keepAlive goroutine; etcd has granted no lease. cur is the lease of the
\* last Register that succeeded, until Unregister is called; after: an
\* Unregister of a registered instance has returned. key: the lease that
\* sd.key is attached to in etcd, NoLease when the key is not there.
NoSr == [registered |-> FALSE, leaseID |-> NoLease, gen |-> 0, stopClosed |-> FALSE,
         tasks |-> {}, leases |-> {}, granted |-> 0, panicked |-> FALSE,
         cur |-> NoLease, after |-> FALSE, key |-> NoLease]
\* CacheHandler.mu is free, nobody is inside UpdatePeers or pickNode. rv and
\* gv count the assignments to h.ring and to h.nodeGetters.
Pickers == {1, 2}
IdlePick == [pc |-> "idle", key |-> "", node |-> "", seen |-> {}]
NoHm == [writer |-> FALSE, readers |-> {}, rv |-> 0, gv |-> 0, updates |-> 0, picks |-> 0,
         up |-> [pc |-> "idle", peers |-> {}],
         pk |-> [p \in Pickers |-> IdlePick]]
\* Two Maps of New(0, fn) that were given nothing and asked nothing.
NoOrd == [a |-> NoRing, b |-> NoRing, givenA |-> <<>>, givenB |-> <<>>,
          key |-> "", gotA |-> "", gotB |-> ""]
\* Watch was called: the goroutine is at its first syncPeers, the context is
\* live, errChan (capacity 1) is empty and the caller reads both channels.
NoWt == [pc |-> "sync", first |-> TRUE, cancelled |-> FALSE, errs |-> 0, reading |-> TRUE,
         events |-> 0, sent |-> 0, closedU |-> FALSE, closedE |-> FALSE]
\* NewGRPCGetter(addr): no connection, no client; the getter is in
\* nodeGetters and no request holds it. open: the connections that were
\* dialed and not closed. late, onNil, onClosed: what has gone wrong so far.
GcReqs == {1, 2}
NoGc == [client |-> FALSE, conn |-> 0, open |-> {}, dialed |-> 0, removed |-> FALSE,
         up |-> "idle", rq |-> [r \in GcReqs |-> [pc |-> "idle", using |-> 0, out |-> "none"]],
         late |-> FALSE, onNil |-> FALSE, onClosed |-> FALSE]
\* Two cache nodes after NewHTTPPool and RegisterPeers: no peers set, nothing
\* cached, no load in flight. wiring says which address a node gave to
\* NewHTTPPool. st: where the node's single-flight call for the key is; tgt,
\* wgen: the node whose call it waits for and the number of calls that node
\* had completed then; gen: calls completed; own: a peer RPC went out for a
\* key that the node's ring maps to the node's registered address.
MeshNodes == {"n1", "n2"}
NoMesh == [wiring |-> "pool", key |-> "", view |-> [n \in MeshNodes |-> {}],
           st |-> [n \in MeshNodes |-> "none"], tgt |-> [n \in MeshNodes |-> ""],
           wgen |-> [n \in MeshNodes |-> 0], gen |-> [n \in MeshNodes |-> 0],
           cached |-> [n \in MeshNodes |-> FALSE], gets |-> 0, sets |-> 0, own |-> FALSE]
MoreIdle ==
    /\ ord = NoOrd
    /\ wt = NoWt
    /\ gc = NoGc
    /\ mesh = NoMesh
ExtIdle ==
    /\ cn = NoNode
    /\ sr = NoSr
    /\ hm = NoHm
    /\ MoreIdle

\* The parts of the system outside the cache node's Group are not in use.
NetIdle ==
    /\ ring = NoRing
    /\ rop = NoRop
    /\ reg = NoReg
    /\ gop = NoGop
    /\ fd = NoFd
    /\ req = NoReq
    /\ DiscIdle
    /\ ExtIdle

(***************************************************************************)
(* singleflight.Group                                                      *)
(*   A call is created by the first caller of Do for a key, which starts   *)
(*   the doCall goroutine and then waits like every later caller.          *)
(*   doCall: "fn" (running fn) -> "defer" (fn returned, val and err set)   *)
(*           -> "deleted" (removed from m) -> "done" (wg.Done)             *)
(***************************************************************************)
\* Callers of Do in SpecSF.
NumCallers == 2
\* Calls of Do started in one run of SpecSF.
MaxDo == 3
SfProcs == 1 .. NumCallers
SfKeys == {"a", "bb"}
\* What fn may return: a value without error, or an error.
FnResults == {[val |-> v, err |-> "nil"] : v \in Values} \cup {[val |-> NoVal, err |-> "failed"]}

\* A call object is live while a caller or a goroutine refers to it.
CallIds == 1 .. (NumCallers + 1)
NoCallId == 0
\* new(call); runs and out record the executions of fn and what fn returned.
\* In SpecGroup a call also holds the state of the load closure: the bytes
\* the origin returned (reply), what kind of reply that was (got), whether
\* the peer RPC failed, and whether the value was put into the cache.
FreeCall == [state |-> "free", key |-> "", val |-> NoVal, err |-> "nil",
             runs |-> 0, out |-> <<>>,
             reply |-> NoVal, got |-> "none", peerFailed |-> FALSE, populated |-> FALSE]
NoExpect == [in |-> FALSE, value |-> NoVal]
IdleProc == [pc |-> "idle", key |-> "", call |-> NoCallId, saw |-> NoCallId,
             ele |-> NoEle, expect |-> NoExpect]
\* res[p]: the operation, its key and result, and from the call it shared:
\* runs, out, got, peerFailed, populated. hit: served from the cache (Get), or
\* the key was cached (Delete). expect: the cached value a Get was entitled to.
NoRes == [op |-> "none", key |-> "", val |-> NoVal, err |-> "nil",
          runs |-> 0, out |-> <<>>, got |-> "none", peerFailed |-> FALSE,
          populated |-> FALSE, hit |-> FALSE, expect |-> NoExpect]
\* The Group is not in use in SpecLRU and SpecSF.
NoGroup == [ttl |-> 0, cacheBytes |-> 0, peers |-> FALSE]
NoHist == [seen |-> {}, over |-> FALSE, late |-> FALSE, upset |-> FALSE, bad |-> FALSE]
NoLoads == [k \in LruKeys |-> [n |-> 0, last |-> NoVal]]
GrpIdle ==
    /\ grp = NoGroup
    /\ mc = [init |-> FALSE, lru |-> New(0), gets |-> 0, hits |-> 0]
    /\ loads = NoLoads
    /\ hist = NoHist

SfInit(P) ==
    /\ m = <<>>
    /\ calls = [c \in CallIds |-> FreeCall]
    /\ procs = [p \in P |-> IdleProc]
    /\ res = [p \in P |-> NoRes]
    /\ count = 0

\* c, ok := g.m[key]
InFlight_Never(mm, key) == NoCallId
InFlight(mm, key) == IF key \in DOMAIN mm THEN mm[key] ELSE NoCallId

CallRefs(mm, cs, ps) ==
    {mm[k] : k \in DOMAIN mm}
        \cup {ps[p].call : p \in DOMAIN ps}
        \cup {c \in CallIds : cs[c].state \notin {"free", "done"}}
\* Call objects nothing refers to any more are garbage.
Swept(mm, cs, ps) ==
    [c \in CallIds |-> IF c \in CallRefs(mm, cs, ps) THEN cs[c] ELSE FreeCall]
FreshCall == CHOOSE c \in CallIds : calls[c].state = "free" /\ c \notin CallRefs(m, calls, procs)

\* Do, up to the Wait: join the call in flight for the key, or create one
\* and start its goroutine (which begins in state `start`).
DoEnter(p, start) ==
    /\ procs[p].pc = "do"
    /\ LET key == procs[p].key
           c == InFlight(m, key)
           saw == IF key \in DOMAIN m THEN m[key] ELSE NoCallId
       IN IF c # NoCallId
          THEN /\ procs' = [procs EXCEPT ![p].pc = "wait", ![p].call = c, ![p].saw = saw]
               /\ UNCHANGED <<m, calls>>
          ELSE /\ procs' = [procs EXCEPT ![p].pc = "wait", ![p].call = FreshCall, ![p].saw = saw]
               /\ m' = MapPut(m, key, FreshCall)
               /\ calls' = [calls EXCEPT ![FreshCall] = [FreeCall EXCEPT !.state = start, !.key = key]]
    /\ UNCHANGED <<res, count>>

\* doCall's deferred function, first half: lock, delete(g.m, key), unlock.
DoCallDelete_Skipped(c) ==
    /\ calls[c].state = "defer"
    /\ calls' = [calls EXCEPT ![c].state = "deleted"]
    /\ UNCHANGED <<m, procs, res, count>>
DoCallDelete(c) ==
    /\ calls[c].state = "defer"
    /\ m' = MapDelete(m, calls[c].key)
    /\ calls' = [calls EXCEPT ![c].state = "deleted"]
    /\ UNCHANGED <<procs, res, count>>

\* doCall's deferred function, second half: c.wg.Done().
DoCallDone(c) ==
    /\ calls[c].state = "deleted"
    /\ calls' = Swept(m, [calls EXCEPT ![c].state = "done"], procs)
    /\ UNCHANGED <<m, procs, res, count>>

\* c.wg.Wait() has returned: return c.val, c.err.
Returned(p, op) ==
    LET c == calls[procs[p].call] IN
    [NoRes EXCEPT !.op = op, !.key = procs[p].key, !.val = c.val, !.err = c.err,
                  !.runs = c.runs, !.out = c.out, !.got = c.got,
                  !.peerFailed = c.peerFailed, !.populated = c.populated,
                  !.expect = procs[p].expect]
DoReturn(p, op) ==
    /\ procs[p].pc = "wait"
    /\ calls[procs[p].call].state = "done"
    /\ res' = [res EXCEPT ![p] = Returned(p, op)]
    /\ procs' = [procs EXCEPT ![p] = IdleProc]
    /\ calls' = Swept(m, calls, procs')
    /\ UNCHANGED <<m, count>>

(***************************************************************************)
(* SpecSF: concurrent Do calls with an fn that returns any result          *)
(***************************************************************************)
SfStart(p) ==
    /\ procs[p].pc = "idle"
    /\ count < MaxDo
    /\ \E key \in SfKeys : procs' = [procs EXCEPT ![p].pc = "do", ![p].key = key]
    /\ count' = count + 1
    /\ UNCHANGED <<m, calls, res>>

\* c.val, c.err = fn()
SfFn(c) ==
    /\ calls[c].state = "fn"
    /\ \E r \in FnResults :
         calls' = [calls EXCEPT ![c].state = "defer", ![c].val = r.val, ![c].err = r.err,
                                ![c].runs = @ + 1, ![c].out = <<r.val, r.err>>]
    /\ UNCHANGED <<m, procs, res, count>>

\* What a step of the singleflight Group leaves alone.
SfRest == UNCHANGED <<now, lruVars, grpVars, netVars>>
SfDoEnter == (\E p \in DOMAIN procs : DoEnter(p, "fn")) /\ SfRest
SfDoCallDelete == (\E c \in CallIds : DoCallDelete(c)) /\ SfRest
SfDoCallDone == (\E c \in CallIds : DoCallDone(c)) /\ SfRest
SfDoReturn == (\E p \in DOMAIN procs : DoReturn(p, "Do")) /\ SfRest
SfCall == (\E p \in DOMAIN procs : SfStart(p)) /\ SfRest
SfFnReturn == (\E c \in CallIds : SfFn(c)) /\ SfRest

SfInitAll ==
    /\ now = 0
    /\ lc = New(0) /\ lhung = FALSE /\ last = NoCall
    /\ added = [k \in LruKeys |-> NotAdded] /\ used = <<>>
    /\ SfInit(SfProcs)
    /\ GrpIdle
    /\ NetIdle

SfNext == SfCall \/ SfDoEnter \/ SfFnReturn \/ SfDoCallDelete \/ SfDoCallDone \/ SfDoReturn

SpecSF == SfInitAll /\ [][SfNext]_vars

(***************************************************************************)
(* Claims about singleflight (SpecSF)                                      *)
(***************************************************************************)
\* C1: a caller that enters Do while a call for its key is in flight shares
\* that call; fn runs exactly once per call, and every caller returns the
\* (value, error) pair that one execution produced.
C1_Collapse ==
    /\ \A p \in DOMAIN procs :
          (procs[p].pc = "wait" /\ procs[p].saw # NoCallId) => procs[p].call = procs[p].saw
    /\ \A c \in CallIds : calls[c].runs <= 1
    /\ \A p \in DOMAIN procs :
          res[p].op = "Do" => (res[p].runs = 1 /\ res[p].out = <<res[p].val, res[p].err>>)
\* All the callers share one call for "a" that has run fn once.
C1_Witness ==
    /\ \A p \in DOMAIN procs : procs[p].pc = "wait" /\ procs[p].call = procs[1].call
    /\ calls[procs[1].call].runs = 1
    /\ Cardinality(DOMAIN procs) = NumCallers

\* The calls whose waiters have been released or whose map entry is gone.
Finished(c) == calls[c].state \in {"deleted", "done"}
\* The map never holds a finished call, and a key nobody waits for has no
\* entry.
C22_MapDrained ==
    /\ \A k \in DOMAIN m : ~Finished(m[k])
    /\ \A k \in SfKeys :
          (\A p \in DOMAIN procs : ~(procs[p].pc = "wait" /\ procs[p].key = k)) => k \notin DOMAIN m
\* A caller that gets past the map lookup of Do holds a call whose fn has
\* not run or whose deferred delete is still to come; when it found no
\* entry, the call is a new one that has not run fn.
C22_EnterStep ==
    \A p \in DOMAIN procs :
        (procs[p].pc = "do" /\ procs'[p].pc = "wait") =>
            /\ calls'[procs'[p].call].state \in {"fn", "defer"}
            /\ m'[procs[p].key] = procs'[p].call
            /\ procs'[p].saw = NoCallId =>
                  calls'[procs'[p].call].state = "fn" /\ calls'[procs'[p].call].runs = 0
\* C22: doCall deletes the finished call from the map before it releases the
\* waiters: a caller entering Do(key) afterwards finds no entry, starts a
\* fresh execution of fn and never joins the finished call, and the map has
\* no entry for a key once every call for it has returned.
C22_DeleteThenSignal == []C22_MapDrained /\ [][C22_EnterStep]_vars
\* Caller 1 has returned from a call for "a"; caller 2, who found no entry,
\* waits on a new call for "a" that is in the map and has not run fn.
C22_Witness ==
    /\ res[1].op = "Do" /\ res[1].key = "a" /\ procs[1].pc = "idle"
    /\ procs[2].pc = "wait" /\ procs[2].key = "a" /\ procs[2].saw = NoCallId
    /\ "a" \in DOMAIN m /\ m["a"] = procs[2].call
    /\ calls[procs[2].call].state = "fn" /\ calls[procs[2].call].runs = 0


(***************************************************************************)
(* SpecLRU: sequential calls on one lru.Cache                              *)
(***************************************************************************)
LruInit ==
    /\ now = 0
    /\ \E mb \in MaxBytesChoices : lc = New(mb)
    /\ lhung = FALSE
    /\ last = NoCall
    /\ added = [k \in LruKeys |-> NotAdded]
    /\ used = <<>>
    /\ SfInit({})
    /\ GrpIdle
    /\ NetIdle

\* Time passes between calls.
Tick ==
    /\ now < MaxClock
    /\ now' = now + 1
    /\ last' = NoCall
    /\ UNCHANGED <<lc, lhung, added, used, sfVars, grpVars, netVars>>

LruAdd ==
    /\ ~lhung
    /\ \E key \in LruKeys, value \in Values, ttl \in TTLs :
         \E r \in {Add(lc, key, value, ttl, now, FreshEle(lc, {}))} :
         /\ lc' = Collect(r.c, {})
         /\ lhung' = r.hangs
         /\ last' = [op |-> IF r.hangs THEN "AddStuck" ELSE "Add", key |-> key,
                     ok |-> TRUE, value |-> value, evicted |-> r.evicted,
                     freed |-> IF r.evicted = <<>> THEN 0
                               ELSE LET k == r.evicted[Len(r.evicted)] IN
                                    Len(k) + Len(IF k = key THEN value ELSE added[k].value),
                     order |-> Touch(used, key), had |-> key \in DOMAIN lc.cache]
         /\ added' = [k \in LruKeys |->
                        IF k \in Range(r.evicted) THEN NotAdded
                        ELSE IF k = key
                             THEN [in |-> TRUE, value |-> value, never |-> ttl <= 0,
                                   deadline |-> IF ttl > 0 THEN now + ttl ELSE 0]
                        ELSE added[k]]
         /\ used' = Forget(Touch(used, key), Range(r.evicted))
    /\ UNCHANGED <<now, sfVars, grpVars, netVars>>

LruGet ==
    /\ ~lhung
    /\ \E key \in LruKeys :
         \E r \in {Get(lc, key, now)} :
         /\ lc' = Collect(r.c, {})
         /\ last' = Called("Get", key, r.ok, r.value)
         /\ used' = IF r.ok THEN Touch(used, key)
                    ELSE Forget(used, {key} \ DOMAIN r.c.cache)
    /\ UNCHANGED <<now, lhung, added, sfVars, grpVars, netVars>>

LruDelete ==
    /\ ~lhung
    /\ \E key \in LruKeys :
         \E r \in {Delete(lc, key)} :
         /\ lc' = Collect(r.c, {})
         /\ last' = Called("Delete", key, r.ok, NoVal)
         /\ added' = [added EXCEPT ![key] = NotAdded]
         /\ used' = Forget(used, {key})
    /\ UNCHANGED <<now, lhung, sfVars, grpVars, netVars>>

LruClear ==
    /\ ~lhung
    /\ lc' = Collect(Clear(lc), {})
    /\ last' = Called("Clear", "", TRUE, NoVal)
    /\ added' = [k \in LruKeys |-> NotAdded]
    /\ used' = <<>>
    /\ UNCHANGED <<now, lhung, sfVars, grpVars, netVars>>

LruNext == Tick \/ LruAdd \/ LruGet \/ LruDelete \/ LruClear

SpecLRU == LruInit /\ [][LruNext]_vars

(***************************************************************************)
(* Claims about lru.Cache (SpecLRU)                                        *)
(***************************************************************************)
\* The Get that just returned asked for a key whose last Add is still in
\* force (not evicted, deleted or cleared since).
GetOfAdded == last.op = "Get" /\ added[last.key].in
GetHitStored == last.ok /\ last.value = added[last.key].value

\* C4: an entry added with ttl <= 0 never expires: every later Get returns it
\* until it is evicted, replaced or deleted.
C4_NoTTLNeverExpires ==
    (GetOfAdded /\ added[last.key].never) => GetHitStored

\* C5: with maxBytes # 0, nbytes <= maxBytes whenever an Add has returned.
C5_AddKeepsLimit ==
    (last.op = "Add" /\ lc.maxBytes # 0) => lc.nbytes <= lc.maxBytes
C5_Witness ==
    /\ last.op = "Add" /\ lc.maxBytes > 0 /\ last.evicted # <<>>
    /\ Len(lc.ll) = 2

\* C6, eviction part: an Add evicts the least recently used keys, in that
\* order and no more of them than needed; the keys it leaves keep their order.
C6_EvictionOrder ==
    last.op = "Add" =>
        /\ last.order = last.evicted \o KeysInOrder(lc)
        /\ last.evicted # <<>> => lc.nbytes + last.freed > lc.maxBytes
C6_EvictionWitness ==
    /\ last.op = "Add" /\ Len(last.evicted) = 1 /\ Len(lc.ll) = 2
    /\ last.order[1] # last.key
\* C6, retrievable part: a Get of an entry that was not evicted (nor deleted,
\* nor past a positive ttl) returns it.
C6_Retrievable ==
    (GetOfAdded /\ (added[last.key].never \/ now <= added[last.key].deadline))
        => GetHitStored
\* C6: evictions happen in least-recently-used order and every entry that was
\* not evicted stays retrievable.
C6_LruEvictionAndRetrievable == C6_EvictionOrder /\ C6_Retrievable

\* C7: an entry added with ttl = d > 0 at time t is returned by every Get
\* before t + d, and every Get strictly after t + d misses and removes it.
C7_TTLBoundary ==
    (GetOfAdded /\ ~added[last.key].never) =>
        /\ now < added[last.key].deadline => GetHitStored
        /\ now > added[last.key].deadline =>
              /\ ~last.ok
              /\ last.key \notin DOMAIN lc.cache
              /\ last.key \notin Range(KeysInOrder(lc))
C7_Witness ==
    /\ GetOfAdded /\ ~added[last.key].never
    /\ now > added[last.key].deadline /\ ~last.ok

\* The bytes the entries of the cache account for: len(key) + value.Len()
\* summed over the elements of the recency list.
RECURSIVE ListBytes(_, _)
ListBytes(c, l) == IF l = <<>> THEN 0 ELSE EntrySize(c.ents[Head(l)]) + ListBytes(c, Tail(l))
\* The same sum taken over the keys of the index.
RECURSIVE IndexBytes(_, _)
IndexBytes(c, ks) ==
    IF ks = {} THEN 0
    ELSE LET k == CHOOSE x \in ks : TRUE IN
         Len(k) + Len(c.ents[c.cache[k]].value) + IndexBytes(c, ks \ {k})
C26_Sum == lc.nbytes = ListBytes(lc, lc.ll) /\ lc.nbytes = IndexBytes(lc, DOMAIN lc.cache)
\* The bytes of the entries an Add evicted, the added key counted with its
\* new value.
RECURSIVE EvictedBytes(_, _, _, _)
EvictedBytes(c, keys, key, value) ==
    IF keys = <<>> THEN 0
    ELSE LET k == Head(keys) IN
         Len(k) + Len(IF k = key THEN value ELSE c.ents[c.cache[k]].value)
            + EvictedBytes(c, Tail(keys), key, value)
\* An Add that replaces the value of a key changes nbytes by the new value
\* length minus the old one, less the entries its eviction loop removed.
C26_ReplaceStep ==
    (last'.op = "Add" /\ last'.key \in DOMAIN lc.cache) =>
        lc'.nbytes = lc.nbytes + Len(last'.value) - Len(lc.ents[lc.cache[last'.key]].value)
                        - EvictedBytes(lc, last'.evicted, last'.key, last'.value)
C27_ListMatchesIndex ==
    /\ Range(KeysInOrder(lc)) = DOMAIN lc.cache
    /\ Len(lc.ll) = Cardinality(DOMAIN lc.cache)
    /\ Cardinality(Range(lc.ll)) = Len(lc.ll)
    /\ \A k \in DOMAIN lc.cache : lc.cache[k] \in Range(lc.ll) /\ lc.ents[lc.cache[k]].key = k
\* A Get has just removed an expired entry and two entries are left.
C27_Witness ==
    /\ last.op = "Get" /\ ~last.ok /\ added[last.key].in
    /\ last.key \notin DOMAIN lc.cache /\ Len(lc.ll) = 2

\* C39: Add terminates for every maxBytes and every entry size: its eviction
\* loop stops once the recency list is empty, also when nbytes still exceeds
\* maxBytes then. No Add is ever left in its eviction loop.
C39_AddTerminates == ~lhung
\* What the loop does with a limit that can be met: with maxBytes >= 0 every
\* Add returns.
C39_NonNegativeLimitTerminates == lc.maxBytes >= 0 => ~lhung

(***************************************************************************)
(* cache.Group: Get, Delete and the load closure run by singleflight       *)
(*   caller:  idle -> (cache hit | "locked" -> hit) -> idle                *)
(*            idle -> ("locked" ->) "do" -> "wait" -> idle                 *)
(*   load closure of a call: "pick" -> ("rpc" ->) "origin" -> "populate"   *)
(*            -> "defer" -> "deleted" -> "done"                            *)
(***************************************************************************)
\* Concurrent callers of the Group.
NumClients == 2
\* Gets issued in one run (stats.Gets counts them).
MaxGets == 2
GrpProcs == 1 .. NumClients
GrpKeys == {"", "a"}
\* What the origin getter may return: an error, nil, empty bytes, or a value.
OriginReplies ==
    {[err |-> TRUE, nil |-> TRUE, bytes |-> NoVal], [err |-> FALSE, nil |-> TRUE, bytes |-> NoVal],
     [err |-> FALSE, nil |-> FALSE, bytes |-> NoVal]}
        \cup {[err |-> FALSE, nil |-> FALSE, bytes |-> <<1>>]}
\* What a peer may answer: bytes (possibly none), or a failure.
PeerReplies == {[ok |-> TRUE, bytes |-> <<1>>], [ok |-> TRUE, bytes |-> NoVal], [ok |-> FALSE, bytes |-> NoVal]}
\* NewGroup(name, cacheBytes, getter, ttl), then RegisterPeers or not.
GroupChoices == {[ttl |-> t, cacheBytes |-> b, peers |-> pp] : t \in {0, 1}, b \in {0, 3}, pp \in BOOLEAN}

GrpInit ==
    /\ now = 0
    /\ lc = New(0) /\ lhung = FALSE /\ last = NoCall
    /\ added = [k \in LruKeys |-> NotAdded] /\ used = <<>>
    /\ SfInit(GrpProcs)
    /\ grp \in GroupChoices
    /\ mc = [init |-> FALSE, lru |-> New(grp.cacheBytes), gets |-> 0, hits |-> 0]
    /\ loads = NoLoads
    /\ hist = NoHist
    /\ NetIdle

\* getLocally: bytes == nil || len(bytes) == 0
NotFoundReply_NilOnly(reply) == reply.nil
NotFoundReply(reply) == reply.nil \/ Len(reply.bytes) = 0

\* load: where the closure goes after the peer RPC (return, or fall back to
\* the local origin).
AfterPeer_ReturnErr(ok) == "defer"
AfterPeer(ok) == IF ok THEN "defer" ELSE "origin"

\* The wrapper's RWMutex: cache.get holds it shared across lru.Get.
Readers == {p \in DOMAIN procs : procs[p].pc = "locked"}
HeldEles(ps) == {ps[q].ele : q \in DOMAIN ps} \ {NoEle}
\* The cache after a step, and the callers with the elements they hold.
SettledLru(c, ps) == Collect(c, HeldEles(ps))
SettledProcs(c, ps) ==
    [q \in DOMAIN ps |->
        [ps[q] EXCEPT !.ele = IF @ = NoEle THEN NoEle ELSE Renamed(c, HeldEles(ps), @)]]

\* The value a Get of `key` is entitled to find cached: a Get has loaded it
\* and returned, and it was not evicted, deleted or replaced since, nor is it
\* past a positive ttl.
Expectation(key) ==
    IF key \in hist.seen /\ added[key].in /\ (added[key].never \/ now <= added[key].deadline)
    THEN [in |-> TRUE, value |-> added[key].value]
    ELSE NoExpect
\* The entry of `key` is past its positive ttl.
PastTTL(key) == added[key].in /\ ~added[key].never /\ now > added[key].deadline

\* Group.Get up to the cache lookup (cache.get takes the shared lock, counts
\* the get, and lru.Get looks the key up under its own shared lock).
GrpGet(p, key) ==
    /\ procs[p].pc = "idle"
    /\ hist' = [hist EXCEPT !.late = @ \/ hist.over]
    /\ IF key = ""
       THEN /\ res' = [res EXCEPT ![p] = [NoRes EXCEPT !.op = "Get", !.err = "EmptyKey"]]
            /\ UNCHANGED <<procs, mc>>
       ELSE /\ mc.gets < MaxGets
            /\ mc' = [mc EXCEPT !.gets = @ + 1]
            /\ LET ele == IF mc.init THEN GetLookup(mc.lru, key) ELSE NoEle IN
               procs' = [procs EXCEPT ![p] =
                           [IdleProc EXCEPT !.pc = IF ele = NoEle THEN "do" ELSE "locked",
                                            !.key = key, !.ele = ele,
                                            !.expect = Expectation(key)]]
            /\ res' = [res EXCEPT ![p] = NoRes]
    /\ UNCHANGED <<m, calls, count, grp, loads, added>>

\* lru.Get under its exclusive lock, then the rest of cache.get and Get.
GrpGetLocked(p) ==
    /\ procs[p].pc = "locked"
    /\ \E r \in {GetLocked(mc.lru, procs[p].key, procs[p].ele, now)} :
         LET key == procs[p].key
             ps == [procs EXCEPT ![p] = IF r.ok THEN IdleProc
                                        ELSE [@ EXCEPT !.pc = "do", !.ele = NoEle,
                                                       !.expect = Expectation(key)]]
         IN /\ procs' = SettledProcs(r.c, ps)
            /\ mc' = [mc EXCEPT !.lru = SettledLru(r.c, ps), !.hits = IF r.ok THEN @ + 1 ELSE @]
            /\ res' = IF r.ok
                      THEN [res EXCEPT ![p] = [NoRes EXCEPT !.op = "Get", !.key = key,
                                                           !.val = r.value, !.hit = TRUE,
                                                           !.expect = Expectation(key)]]
                      ELSE res
            /\ hist' = [hist EXCEPT !.over = @ \/ r.ok,
                                    !.upset = @ \/ (~r.ok /\ PastTTL(key)),
                                    !.seen = IF ~r.ok /\ PastTTL(key) THEN @ \ {key} ELSE @]
            /\ added' = IF ~r.ok /\ PastTTL(key) THEN [added EXCEPT ![key] = NotAdded] ELSE added
    /\ UNCHANGED <<m, calls, count, grp, loads>>

\* cache.delete: the exclusive lock, then lru.Delete if the lru exists.
CacheDelete(c, key) == IF c.init THEN Delete(c.lru, key) ELSE [c |-> c.lru, ok |-> FALSE]

\* Group.Delete
GrpDelete(p, key) ==
    /\ procs[p].pc = "idle"
    /\ IF key = ""
       THEN /\ res' = [res EXCEPT ![p] = [NoRes EXCEPT !.op = "Delete", !.err = "EmptyKey"]]
            /\ UNCHANGED <<mc, hist, added>>
       ELSE /\ Readers = {}
            /\ \E r \in {CacheDelete(mc, key)} :
                 /\ mc' = [mc EXCEPT !.lru = Collect(r.c, {})]
                 /\ res' = [res EXCEPT ![p] = [NoRes EXCEPT !.op = "Delete", !.key = key,
                                                           !.hit = r.ok,
                                                           !.out = KeysInOrder(mc.lru)]]
            /\ hist' = [hist EXCEPT !.upset = TRUE, !.seen = @ \ {key}]
            /\ added' = [added EXCEPT ![key] = NotAdded]
    /\ UNCHANGED <<m, calls, procs, count, grp, loads>>

\* load closure: g.peers != nil and PickPeer(key) names a remote owner, or not.
FnPick(c) ==
    /\ calls[c].state = "pick"
    /\ \E remote \in BOOLEAN :
         calls' = [calls EXCEPT ![c].state = IF grp.peers /\ remote THEN "rpc" ELSE "origin"]
    /\ UNCHANGED <<m, procs, res, count, grpVars, added>>

\* load closure: `return value, nil` with the ByteView of the peer's bytes;
\* nothing is handed to populateCache.
PeerDone_Populate(cl, r) == [cl EXCEPT !.state = "populate", !.reply = r.bytes, !.peerFailed = ~r.ok]
PeerDone(cl, r) ==
    [cl EXCEPT !.state = "defer", !.val = r.bytes,
               !.err = IF r.ok THEN "nil" ELSE "PeerError",
               !.peerFailed = ~r.ok, !.runs = @ + 1,
               !.out = <<r.bytes, IF r.ok THEN "nil" ELSE "PeerError">>]

\* load closure: getFromPeerWithProto returns.
FnPeerReply(c) ==
    /\ calls[c].state = "rpc"
    /\ \E r \in PeerReplies :
         calls' = [calls EXCEPT ![c] =
                     IF AfterPeer(r.ok) = "defer"
                     THEN PeerDone(@, r)
                     ELSE [@ EXCEPT !.state = "origin", !.peerFailed = TRUE]]
    /\ UNCHANGED <<m, procs, res, count, grpVars, added>>

\* getLocally: g.getter.Get(key) returns; errors and empty replies end the
\* closure, a value goes on to populateCache.
FnOrigin(c) ==
    /\ calls[c].state = "origin"
    /\ \E r \in OriginReplies :
         /\ calls' = [calls EXCEPT ![c] =
                        IF r.err
                        THEN [@ EXCEPT !.state = "defer", !.got = "err", !.err = "InternalError",
                                       !.runs = @ + 1, !.out = <<NoVal, "InternalError">>]
                        ELSE IF NotFoundReply(r)
                        THEN [@ EXCEPT !.state = "defer", !.err = "NotFound", !.runs = @ + 1,
                                       !.got = IF r.nil \/ r.bytes = NoVal THEN "empty" ELSE "value",
                                       !.out = <<NoVal, "NotFound">>]
                        ELSE [@ EXCEPT !.state = "populate", !.reply = r.bytes,
                                       !.got = IF r.nil \/ r.bytes = NoVal THEN "empty" ELSE "value"]]
         /\ loads' = [loads EXCEPT ![calls[c].key] = [n |-> @.n + 1, last |-> r.bytes]]
         /\ hist' = [hist EXCEPT !.bad = @ \/ r.err \/ r.nil \/ r.bytes = NoVal]
    /\ UNCHANGED <<m, procs, res, count, grp, mc, added>>

\* getLocally: populateCache (cache.add takes the exclusive lock, creates the
\* lru on first use, and calls lru.Add), then the closure returns the value.
FnPopulate(c) ==
    /\ calls[c].state = "populate"
    /\ Readers = {}
    /\ LET key == calls[c].key
           value == calls[c].reply
       IN \E r \in {Add(mc.lru, key, value, grp.ttl, now, FreshEle(mc.lru, {}))} :
            /\ ~r.hangs
            /\ mc' = [mc EXCEPT !.init = TRUE, !.lru = Collect(r.c, {})]
            /\ calls' = [calls EXCEPT ![c].state = "defer", ![c].val = value, ![c].err = "nil",
                                      ![c].populated = TRUE, ![c].runs = @ + 1,
                                      ![c].out = <<value, "nil">>]
            /\ added' = [k \in LruKeys |->
                           IF k \in Range(r.evicted) THEN NotAdded
                           ELSE IF k = key
                                THEN [in |-> TRUE, value |-> value, never |-> grp.ttl <= 0,
                                      deadline |-> IF grp.ttl > 0 THEN now + grp.ttl ELSE 0]
                           ELSE added[k]]
            /\ hist' = [hist EXCEPT !.upset = @ \/ r.evicted # <<>>,
                                    !.seen = @ \ ({key} \cup Range(r.evicted))]
    /\ UNCHANGED <<m, procs, res, count, grp, loads>>

\* load returns what Do returned, and Get returns that.
GrpReturn(p) ==
    /\ DoReturn(p, "Get")
    /\ LET c == calls[procs[p].call] IN
       hist' = [hist EXCEPT !.over = TRUE,
                            !.seen = IF c.populated /\ added[c.key].in /\ added[c.key].value = c.val
                                     THEN @ \cup {c.key} ELSE @]
    /\ UNCHANGED <<grp, mc, loads, added>>

GrpTick ==
    /\ now < MaxClock
    /\ now' = now + 1
    /\ UNCHANGED <<lruVars, sfVars, grpVars, netVars>>

\* What a step of the Group leaves alone.
GrpRest == UNCHANGED <<now, lc, lhung, last, used, netVars>>
GroupGet == (\E p \in DOMAIN procs, key \in GrpKeys : GrpGet(p, key)) /\ GrpRest
GroupGetLocked == (\E p \in DOMAIN procs : GrpGetLocked(p)) /\ GrpRest
GroupDelete == (\E p \in DOMAIN procs, key \in LruKeys : GrpDelete(p, key)) /\ GrpRest
GroupDoEnter ==
    (\E p \in DOMAIN procs : DoEnter(p, "pick")) /\ UNCHANGED <<grpVars, added>> /\ GrpRest
GroupPick == (\E c \in CallIds : FnPick(c)) /\ GrpRest
GroupPeerReply == (\E c \in CallIds : FnPeerReply(c)) /\ GrpRest
GroupOrigin == (\E c \in CallIds : FnOrigin(c)) /\ GrpRest
GroupPopulate == (\E c \in CallIds : FnPopulate(c)) /\ GrpRest
GroupDoCallDelete ==
    (\E c \in CallIds : DoCallDelete(c)) /\ UNCHANGED <<grpVars, added>> /\ GrpRest
GroupDoCallDone ==
    (\E c \in CallIds : DoCallDone(c)) /\ UNCHANGED <<grpVars, added>> /\ GrpRest
GroupReturn == (\E p \in DOMAIN procs : GrpReturn(p)) /\ GrpRest

GrpNext ==
    \/ GrpTick \/ GroupGet \/ GroupGetLocked \/ GroupDelete \/ GroupDoEnter \/ GroupPick
    \/ GroupPeerReply \/ GroupOrigin \/ GroupPopulate \/ GroupDoCallDelete
    \/ GroupDoCallDone \/ GroupReturn

SpecGroup == GrpInit /\ [][GrpNext]_vars

(***************************************************************************)
(* Properties of cache.Group                                               *)
(***************************************************************************)
\* C2: concurrent Gets of a key on a cold cache (no peers, a positive ttl,
\* the origin returns a value, no Get starts after another has returned,
\* nothing deleted or expired) invoke the origin exactly once, and every Get
\* returns that value.
C2_OriginOnce ==
    (~grp.peers /\ grp.ttl > 0 /\ ~hist.late /\ ~hist.upset /\ ~hist.bad) =>
        \A k \in GrpKeys \ {""} :
            /\ loads[k].n <= 1
            /\ \A p \in DOMAIN procs :
                  (res[p].op = "Get" /\ res[p].key = k) =>
                      (res[p].err = "nil" /\ res[p].val = loads[k].last)

\* C3: once a Get has loaded a value and returned, a following Get of the
\* key (entry not evicted, not deleted, not past a positive ttl; ttl = 0
\* included) is a cache hit that returns the same bytes.
C3_SecondGetFromCache ==
    \A p \in DOMAIN procs :
        (res[p].op = "Get" /\ res[p].expect.in) =>
            (res[p].hit /\ res[p].val = res[p].expect.value)
\* The same with a positive ttl only.
C3_PositiveTTL == grp.ttl > 0 => C3_SecondGetFromCache

\* C8: Group.Delete of a non-empty key returns success; if the key is not
\* cached the cache (contents, nbytes, recency order) is unchanged; a second
\* Delete of the key changes nothing more.
C8_DeleteStep ==
    \A p \in DOMAIN procs, key \in LruKeys \ {""} :
        GrpDelete(p, key) =>
            /\ res'[p].op = "Delete" /\ res'[p].err = "nil"
            /\ key \notin DOMAIN mc.lru.cache => mc'.lru = mc.lru
            /\ key \notin DOMAIN mc'.lru.cache
            /\ CacheDelete(mc', key).c = mc'.lru
C8_DeleteMissing == [][C8_DeleteStep]_vars
\* A Delete of a key that was not cached has returned, on a cache that held
\* another key.
C8_Witness ==
    \E p \in DOMAIN procs :
        /\ res[p].op = "Delete" /\ res[p].key = "bb" /\ ~res[p].hit
        /\ res[p].out = <<"a">>
        /\ KeysInOrder(mc.lru) = <<"a">>

\* C9: an origin reply of nil or zero-length bytes without error makes the
\* load end with NotFound, and nothing is put in the cache.
C9_Calls ==
    /\ \A c \in CallIds :
          calls[c].got = "empty" =>
              /\ calls[c].state \in {"defer", "deleted", "done"}
              /\ calls[c].err = "NotFound"
              /\ ~calls[c].populated
    /\ \A p \in DOMAIN procs :
          (res[p].op = "Get" /\ res[p].got = "empty") =>
              (res[p].err = "NotFound" /\ res[p].val = NoVal /\ ~res[p].populated)
C9_Step ==
    \A c \in CallIds :
        (calls[c].state = "origin" /\ calls'[c].got = "empty") => mc' = mc
C9_EmptyOriginNotFound == []C9_Calls /\ [][C9_Step]_vars
\* A Get got NotFound for an empty origin reply, the key is not cached, and
\* the origin has been asked for it a second time.
C9_Witness ==
    \E p \in DOMAIN procs :
        /\ res[p].op = "Get" /\ res[p].got = "empty" /\ res[p].err = "NotFound"
        /\ res[p].key \notin DOMAIN mc.lru.cache
        /\ loads[res[p].key].n = 2

\* C10: after a failed peer RPC the load asks the local origin; the peer
\* error is never the result; a value from the origin is cached and returned;
\* an error is returned only when the origin gave no value.
C10_Calls ==
    /\ \A c \in CallIds :
          (calls[c].peerFailed /\ calls[c].state \in {"defer", "deleted", "done"}) =>
              /\ calls[c].got # "none"
              /\ calls[c].err # "PeerError"
              /\ calls[c].got = "value" =>
                    (calls[c].populated /\ calls[c].err = "nil" /\ calls[c].val = calls[c].reply)
              /\ calls[c].err # "nil" => calls[c].got \in {"err", "empty"}
    /\ \A p \in DOMAIN procs :
          (res[p].op = "Get" /\ res[p].peerFailed) =>
              /\ res[p].err # "PeerError"
              /\ res[p].got = "value" => (res[p].populated /\ res[p].err = "nil")
              /\ res[p].err # "nil" => res[p].got \in {"err", "empty"}
C10_Step ==
    \A c \in CallIds :
        (calls[c].peerFailed /\ calls[c].state = "populate" /\ calls'[c].state = "defer") =>
            /\ calls[c].key \in DOMAIN mc'.lru.cache
            /\ mc'.lru.ents[mc'.lru.cache[calls[c].key]].value = calls[c].reply
C10_PeerFailureFallsBack == []C10_Calls /\ [][C10_Step]_vars
\* A Get whose peer RPC failed returned the origin's value, which was cached.
C10_Witness ==
    \E p \in DOMAIN procs :
        /\ res[p].op = "Get" /\ res[p].peerFailed /\ res[p].populated
        /\ res[p].err = "nil" /\ res[p].val = <<1>>

\* A load that a peer served: the closure has returned, the peer RPC did not
\* fail and the origin was not asked.
PeerServed(cl) ==
    cl.state \in {"defer", "deleted", "done"} /\ cl.got = "none" /\ ~cl.peerFailed
C34_Calls ==
    /\ \A c \in CallIds :
          PeerServed(calls[c]) =>
              /\ ~calls[c].populated /\ calls[c].err = "nil"
              /\ calls[c].out = <<calls[c].val, "nil">>
    /\ \A p \in DOMAIN procs :
          (res[p].op = "Get" /\ res[p].runs > 0 /\ res[p].got = "none" /\ ~res[p].peerFailed) =>
              /\ ~res[p].populated /\ res[p].err = "nil"
              /\ res[p].out = <<res[p].val, "nil">>
C34_Step ==
    \A c \in CallIds :
        (calls[c].state = "rpc" /\ calls'[c].state # "rpc" /\ ~calls'[c].peerFailed) =>
            /\ PeerServed(calls'[c])
            /\ calls'[c].val \in {r.bytes : r \in {x \in PeerReplies : x.ok}}
            /\ mc' = mc /\ added' = added /\ loads' = loads
RingInit ==
    /\ now = 0
    /\ lc = New(0) /\ lhung = FALSE /\ last = NoCall
    /\ added = [k \in LruKeys |-> NotAdded] /\ used = <<>>
    /\ SfInit({})
    /\ GrpIdle
    /\ \E r \in 1 .. MaxReplicas, h \in Hashes :
          /\ \A n \in RingNodes, i \in r .. (MaxReplicas - 1) : h[VName(i, n)] = 0
          \* the node names are interchangeable: their first virtual nodes are
          \* taken in the order of their hashes
          /\ h[VName(0, "n1")] <= h[VName(0, "n2")] /\ h[VName(0, "n2")] <= h[VName(0, "n3")]
          /\ ring = MapNew(r, h)
    /\ rop = NoRop
    /\ reg = NoReg /\ gop = NoGop
    /\ fd = NoFd /\ req = NoReq
    /\ DiscIdle
    /\ ExtIdle

RingAdd ==
    /\ Len(ring.keys) + ring.replicas <= MaxRingLen
    /\ \E node \in RingNodes :
          /\ ring' = MapAdd(ring, <<node>>)
          /\ rop' = [NoRop EXCEPT !.op = "Add", !.arg = node]
    /\ UNCHANGED <<coreVars, regVars, frontVars, discVars, extVars>>

RingRemove ==
    /\ \E node \in RingNodes :
          \E r \in {MapRemove(ring, node)} :
             /\ ring' = r.m
             /\ rop' = [NoRop EXCEPT !.op = "Remove", !.arg = node, !.panic = r.panic]
    /\ UNCHANGED <<coreVars, regVars, frontVars, discVars, extVars>>

RingGet ==
    /\ \E key \in RingKeys :
          rop' = [NoRop EXCEPT !.op = "Get", !.arg = key, !.result = MapGet(ring, key)]
    /\ UNCHANGED <<coreVars, ring, regVars, frontVars, discVars, extVars>>

RingNext == RingAdd \/ RingRemove \/ RingGet

SpecRing == RingInit /\ [][RingNext]_vars

(***************************************************************************)
(* Properties of consistenthash.Map                                        *)
(***************************************************************************)
\* The key list is sorted.
KeysSorted == \A i, j \in DOMAIN ring.keys : i <= j => ring.keys[i] <= ring.keys[j]
\* The node of the first entry of the key list that is >= hash(key); of the
\* entry at index 0 if there is none; "" on an empty ring.
FirstAtOrAfter(mp, key) ==
    IF mp.keys = <<>> THEN ""
    ELSE LET S == {i \in DOMAIN mp.keys : mp.keys[i] >= mp.hash[key]} IN
         IF S = {} THEN mp.hashMap[mp.keys[1]]
         ELSE mp.hashMap[mp.keys[CHOOSE i \in S : \A j \in S : i <= j]]
\* C17: Get(key) returns the node of the first entry of the sorted hash list
\* that is >= hash(key), wraps to the entry at index 0 when there is none, and
\* returns "" on an empty ring.
C17_GetFirstAtOrAfter ==
    /\ KeysSorted
    /\ rop.op = "Get" => rop.result = FirstAtOrAfter(ring, rop.arg)
\* A Get wrapped around on a ring whose first and last entries belong to
\* different nodes.
C17_Witness ==
    /\ rop.op = "Get" /\ ring.keys # <<>>
    /\ \A i \in DOMAIN ring.keys : ring.keys[i] < ring.hash[rop.arg]
    /\ rop.result = ring.hashMap[ring.keys[1]]
    /\ ring.hashMap[ring.keys[1]] # ring.hashMap[ring.keys[Len(ring.keys)]]

\* What Remove(node) owes the keys when it returns.
Rerouted(before, after, node) ==
    \A key \in RingKeys :
        LET was == MapGet(before, key)
            is == MapGet(after, key)
        IN /\ was # node => is = was
           /\ was = node => is \in (MapNodes(before) \ {node}) \cup
                                   (IF MapNodes(before) = {node} THEN {""} ELSE {})
           /\ is # node
\* C16: Remove(n) on a ring that contains n returns, and then every key of
\* another node keeps its owner, every key of n goes to a remaining node, and
\* Get does not return n.
C16_RemoveStep ==
    \A node \in RingNodes :
        (rop'.op = "Remove" /\ rop'.arg = node /\ node \in MapNodes(ring)) =>
            (~rop'.panic /\ Rerouted(ring, ring', node))
C16_RemoveReroutes == [][C16_RemoveStep]_vars
\* The same for the calls of Remove that return.
C16_ReturnedStep ==
    \A node \in RingNodes :
        (rop'.op = "Remove" /\ rop'.arg = node /\ node \in MapNodes(ring) /\ ~rop'.panic) =>
            Rerouted(ring, ring', node)
C16_WhenRemoveReturns == [][C16_ReturnedStep]_vars

\* The entries of the sorted hash list that belong to node: the positions
\* whose hash the hashMap resolves to it.
EntriesOf(mp, node) == {i \in DOMAIN mp.keys : mp.hashMap[mp.keys[i]] = node}
\* C35: after any sequence of Add and Remove calls, also an Add of a node
\* that is already present, each node present has exactly `replicas` entries
\* in the hash list, and the list is in non-decreasing order.
C35_ReplicasPerNode ==
    /\ KeysSorted
    /\ \A node \in MapNodes(ring) : Cardinality(EntriesOf(ring, node)) = ring.replicas
\* The half of it that Add's sort.Ints and Remove's sort.Ints give.
C35_ListSorted == KeysSorted
\* An Add of a node that is present, on a ring whose virtual nodes all have
\* hashes of their own.
C35_ReAdded ==
    /\ rop.op = "Add" /\ Cardinality(EntriesOf(ring, rop.arg)) > ring.replicas
    /\ \A a, b \in {VName(i, n) : i \in 0 .. (ring.replicas - 1), n \in RingNodes} :
          a # b => ring.hash[a] # ring.hash[b]

(***************************************************************************)
(* The front-door (handlers.CacheHandler), its NodeGetters, and the        *)
(* surfaces of the cache node they call                                    *)
(***************************************************************************)
\* The words the code searches error messages for. The Chinese ones are
\* written in pinyin.
NotFoundWords == {"key not found", "not found", "not exist", "bendi weizhaodao", "weizhaodao"}
EmptyKeyWords == {"key is empty", "jian wei kong"}
NoGroupWords == {"no such group", "group not found", "zu bucunzai"}
\* The messages an origin getter's error may carry.
OriginTexts == {{}, {"not found"}, {"key is empty"}, {"no such group"}}
\* What the origin getter may return, as OriginReplies, with the error's text.
FrontOrigin ==
    {[err |-> TRUE, nil |-> TRUE, bytes |-> NoVal, text |-> t] : t \in OriginTexts}
        \cup {[err |-> FALSE, nil |-> n, bytes |-> NoVal, text |-> {}] : n \in BOOLEAN}
        \cup {[err |-> FALSE, nil |-> FALSE, bytes |-> <<1>>, text |-> {}]}

CacheErr(type, text) == [type |-> type, code |-> "OK", text |-> text]
\* fmt.Errorf(...)
PlainErr(text) == [type |-> "plain", code |-> "OK", text |-> text]
ErrEmptyKey == CacheErr("KeyEmpty", {"key is empty"})
ErrNotFound == CacheErr("KeyNotFound", {"key not found", "not found"})
ErrNoSuchGroup == CacheErr("GroupNotFound", {"group not found", "not found"})
\* WrapError(errType, message, cause): Error() is message + ": " + cause.
WrapError(type, text, cause) == CacheErr(type, text \cup cause.text)

\* A string that may hold "/" is the list of its parts between the "/":
\* "" is <<"">> and "a/bb" is <<"a", "bb">>.
EmptyString == <<"">>
\* What follows "/api/cache/{group}" in the paths clients ask for: nothing,
\* "/", "/a", "/bb", "/a/bb".
PathTails == {<<>>, <<"">>, <<"a">>, <<"bb">>, <<"a", "bb">>}
PathPrefixes == {<<"api", "cache">>, <<"cache">>}
\* strings.Split(path, "/") of prefix + "/" + group + tail
SplitPath(prefix, group, tail) == <<"">> \o prefix \o <<group>> \o tail

\* proto.Marshal and proto.Unmarshal of pb.Request and pb.Response: a field
\* that holds the zero value is not written, and reads back as the zero value.
MarshalRequest(group, key) ==
    (IF group = "" THEN <<>> ELSE <<[field |-> 1, val |-> <<group>>]>>)
        \o (IF key = EmptyString THEN <<>> ELSE <<[field |-> 2, val |-> key]>>)
UnmarshalRequest(data) ==
    LET f(n) == {i \in DOMAIN data : data[i].field = n} IN
    [group |-> IF f(1) = {} THEN "" ELSE data[CHOOSE i \in f(1) : TRUE].val[1],
     key |-> IF f(2) = {} THEN EmptyString ELSE data[CHOOSE i \in f(2) : TRUE].val]
MarshalResponse(value) == IF Len(value) = 0 THEN <<>> ELSE <<[field |-> 1, val |-> value]>>
UnmarshalResponse(data) == IF data = <<>> THEN NoVal ELSE data[1].val

\* Group.Get(key) on a cache miss, the origin getter answering reply.
GroupGetResult(key, reply) ==
    IF key = EmptyString THEN [err |-> ErrEmptyKey, value |-> NoVal]
    ELSE IF reply.err
    THEN [err |-> WrapError("Internal", {}, PlainErr(reply.text)), value |-> NoVal]
    ELSE IF NotFoundReply(reply) THEN [err |-> ErrNotFound, value |-> NoVal]
    ELSE [err |-> NoErr, value |-> reply.bytes]
\* Group.Delete(key)
GroupDeleteResult(key) == IF key = EmptyString THEN ErrEmptyKey ELSE NoErr
\* The origin replies a call of Group.Get consumed.
Consulted(r, group, key, reply) ==
    IF GetGroup(r, group) = NoInstance \/ key = EmptyString THEN <<>> ELSE <<reply>>

\* grpc.CacheServer.Get and Delete: the error is returned as it is.
CacheServerGet(r, group, key, reply) ==
    IF GetGroup(r, group) = NoInstance
    THEN [err |-> PlainErr({"weizhaodao"}), value |-> NoVal]
    ELSE GroupGetResult(key, reply)
CacheServerDelete(r, group, key) ==
    IF GetGroup(r, group) = NoInstance THEN PlainErr({"weizhaodao"}) ELSE GroupDeleteResult(key)
\* grpc-go: the status code of an error a handler returned. An error that is
\* not of the status package has code Unknown; its message is kept.
StatusCode(err) == IF err.type = "status" THEN err.code ELSE "Unknown"
RpcError(err) == [type |-> "status", code |-> StatusCode(err), text |-> err.text]
\* What the client of the RPC receives.
RpcReply(got) ==
    IF got.err # NoErr THEN [err |-> RpcError(got.err), value |-> NoVal]
    ELSE [err |-> NoErr, value |-> UnmarshalResponse(MarshalResponse(got.value))]

\* The network between the front-door and the node: "up"; "down" (no
\* connection); "flap" (a call is answered, a reconnection fails).
NetStates == {"up", "down", "flap"}
\* GRPCGetter.GetByProto: on any error the connection is closed and opened
\* again and the call is made once more.
GRPCGetByProto(r, group, key, o1, o2, net) ==
    LET first == RpcReply(CacheServerGet(r, group, key, o1))
        second == RpcReply(CacheServerGet(r, group, key, o2))
    IN IF net = "down"
       THEN [err |-> PlainErr({}), value |-> NoVal, calls |-> 0, origin |-> <<>>]
       ELSE IF first.err = NoErr \/ net = "flap"
       THEN [err |-> first.err, value |-> first.value, calls |-> 1,
             origin |-> Consulted(r, group, key, o1)]
       ELSE [err |-> second.err, value |-> second.value, calls |-> 2,
             origin |-> Consulted(r, group, key, o1) \o Consulted(r, group, key, o2)]

\* HTTPPool.handleProtobuf: the answer to a POST of a marshalled pb.Request.
handleProtobuf(r, data, reply) ==
    LET rq == UnmarshalRequest(data)
        got == GroupGetResult(rq.key, reply)
    IN IF GetGroup(r, rq.group) = NoInstance
       THEN [status |-> 404, text |-> {"no such group"}, data |-> <<>>]
       ELSE IF got.err.type = "KeyEmpty" THEN [status |-> 400, text |-> {"key is empty"}, data |-> <<>>]
       ELSE IF got.err.type = "KeyNotFound" THEN [status |-> 404, text |-> {"not found"}, data |-> <<>>]
       ELSE IF got.err # NoErr THEN [status |-> 500, text |-> got.err.text, data |-> <<>>]
       ELSE [status |-> 200, text |-> {}, data |-> MarshalResponse(got.value)]
\* The class of a message by the words found in it, tried in this order.
WordClass(text) ==
    IF text \cap NotFoundWords # {} THEN "KeyNotFound"
    ELSE IF text \cap EmptyKeyWords # {} THEN "KeyEmpty"
    ELSE IF text \cap NoGroupWords # {} THEN "GroupNotFound"
    ELSE "other"
\* HTTPGetter.GetByProto
HTTPGetByProto(r, group, key, o1, net) ==
    LET ans == handleProtobuf(r, MarshalRequest(group, key), o1)
        class == WordClass(ans.text)
        err == IF ans.status = 404 THEN ErrNotFound
               ELSE IF ans.status = 200 THEN NoErr
               ELSE IF class = "KeyNotFound" THEN ErrNotFound
               ELSE IF class = "KeyEmpty" THEN ErrEmptyKey
               ELSE IF class = "GroupNotFound" THEN ErrNoSuchGroup
               ELSE PlainErr(ans.text)
    IN IF net = "down"
       THEN [err |-> PlainErr({}), value |-> NoVal, calls |-> 0, origin |-> <<>>]
       ELSE [err |-> err, value |-> IF err = NoErr THEN UnmarshalResponse(ans.data) ELSE NoVal,
             calls |-> 1, origin |-> Consulted(r, group, key, o1)]

\* parseCachePath: <<group, key>>, or <<>> for nil.
parseCachePath(path) ==
    LET nonEmptyParts == SelectSeq(path, LAMBDA part : part # "") IN
    IF Len(nonEmptyParts) < 3 THEN <<>>
    ELSE IF Len(nonEmptyParts) >= 4 /\ nonEmptyParts[1] = "api" /\ nonEmptyParts[2] = "cache"
    THEN <<nonEmptyParts[3], nonEmptyParts[4]>>
    ELSE IF Len(nonEmptyParts) >= 3 /\ nonEmptyParts[1] = "cache"
    THEN <<nonEmptyParts[2], nonEmptyParts[3]>>
    ELSE <<>>
\* pickNode: the node that has the key and a NodeGetter, "" if there is none.
pickNode(h, mp, key) ==
    IF h.getters = {} THEN ""
    ELSE LET node == MapGet(mp, key) IN
         IF node = "" THEN "" ELSE IF node \in h.getters THEN node ELSE ""
\* GetCacheHandler: the class of the NodeGetter's error, by its type and then
\* by the words of its message, and the status answered for a class.
ErrClass(err) ==
    IF err.type \in {"KeyNotFound", "KeyEmpty", "GroupNotFound"} THEN err.type
    ELSE WordClass(err.text)
FrontStatus_NotFound500(class) ==
    CASE class = "KeyEmpty" -> 400
      [] class = "GroupNotFound" -> 404
      [] OTHER -> 500
FrontStatus(class) ==
    CASE class = "KeyNotFound" -> 404
      [] class = "KeyEmpty" -> 400
      [] class = "GroupNotFound" -> 404
      [] OTHER -> 500

\* crc32.ChecksumIEEE, the Hash of a Map made with a nil fn: one function.
Crc32 ==
    [v \in VNames |-> CASE v \in {"0n1", "1n3"} -> 0
                        [] v \in {"0n2", "1n1"} -> 1
                        [] v \in {"0n3"} -> 2
                        [] OTHER -> 3] @@ KeyHash

\* GetCacheHandler, for the path split at "/": the answer, with the node
\* picked, the RPCs made and the origin replies consumed on the node.
GetCacheHandler(h, mp, r, path, o1, o2, net) ==
    LET parts == parseCachePath(path)
        groupName == parts[1]
        key == parts[2]
        node == pickNode(h, mp, key)
        got == IF h.protocol = "grpc" THEN GRPCGetByProto(r, groupName, <<key>>, o1, o2, net)
               ELSE HTTPGetByProto(r, groupName, <<key>>, o1, net)
    IN IF parts = <<>> THEN [NoReq EXCEPT !.status = 400, !.ctype = "text/plain"]
       ELSE IF node = "" THEN [NoReq EXCEPT !.status = 503, !.ctype = "text/plain", !.asked = <<key>>]
       ELSE IF got.err # NoErr
       THEN [NoReq EXCEPT !.status = FrontStatus(ErrClass(got.err)), !.ctype = "text/plain",
                          !.asked = <<key>>, !.node = node, !.calls = got.calls,
                          !.origin = got.origin, !.gerr = got.err]
       ELSE [NoReq EXCEPT !.status = 200, !.ctype = "application/octet-stream",
                          !.body = got.value, !.asked = <<key>>, !.node = node,
                          !.calls = got.calls, !.origin = got.origin]

\* Server.cacheHandler, the cache node's own HTTP surface, for the path
\* "/api/cache/" + group + tail.
cacheHandler(r, method, group, tail, reply) ==
    LET got == GroupGetResult(tail, reply)
        err == GroupDeleteResult(tail)
    IN IF tail = <<>> THEN [NoReq EXCEPT !.status = 400, !.ctype = "text/plain"]
       ELSE IF GetGroup(r, group) = NoInstance THEN [NoReq EXCEPT !.status = 404, !.ctype = "text/plain"]
       ELSE IF method = "GET"
       THEN IF got.err # NoErr
            THEN [NoReq EXCEPT !.status = IF got.err = ErrNotFound THEN 404 ELSE 500,
                               !.ctype = "text/plain", !.gerr = got.err,
                               !.origin = Consulted(r, group, tail, reply)]
            ELSE [NoReq EXCEPT !.status = 200, !.ctype = "application/octet-stream",
                               !.body = got.value, !.origin = Consulted(r, group, tail, reply)]
       ELSE IF method = "DELETE"
       THEN IF err # NoErr
            THEN [NoReq EXCEPT !.status = IF err = ErrEmptyKey THEN 400 ELSE 500,
                               !.ctype = "text/plain", !.gerr = err]
            ELSE [NoReq EXCEPT !.status = 200, !.ctype = "text/plain"]
       ELSE [NoReq EXCEPT !.status = 405, !.ctype = "text/plain"]

(***************************************************************************)
(* SpecFront: a cache node's registry and surfaces, and the front-door     *)
(***************************************************************************)
FrontInit ==
    /\ now = 0
    /\ lc = New(0) /\ lhung = FALSE /\ last = NoCall
    /\ added = [k \in LruKeys |-> NotAdded] /\ used = <<>>
    /\ SfInit({})
    /\ GrpIdle
    /\ \E replicas \in 0 .. MaxReplicas : ring = MapNew(replicas, Crc32)
    /\ rop = NoRop
    /\ reg = NoReg /\ gop = NoGop
    /\ \E protocol \in {"http", "grpc"} : fd = [NoFd EXCEPT !.protocol = protocol]
    /\ req = NoReq
    /\ DiscIdle
    /\ ExtIdle

\* cache.NewGroup(name, ...) on the cache node
FrontNewGroup ==
    /\ reg.made < MaxGroups
    /\ \E name \in GroupNames :
          /\ reg' = NewGroup(reg, name)
          /\ gop' = [op |-> "NewGroup", name |-> name, result |-> reg.made + 1]
    /\ req' = NoReq
    /\ UNCHANGED <<coreVars, ring, rop, fd, discVars, extVars>>

\* cache.GetGroup(name) on the cache node
FrontGetGroup ==
    /\ \E name \in GroupNames :
          gop' = [op |-> "GetGroup", name |-> name, result |-> GetGroup(reg, name)]
    /\ req' = NoReq
    /\ UNCHANGED <<coreVars, ring, rop, reg, fd, discVars, extVars>>

\* CacheHandler.UpdatePeers(peers, getterFactory)
UpdatePeers ==
    /\ \E peers \in SUBSET RingNodes :
          /\ ring' = MapAdd(MapNew(ring.replicas, ring.hash), SeqOfSet(peers))
          /\ fd' = [fd EXCEPT !.getters = peers]
    /\ req' = NoReq /\ gop' = NoGop
    /\ UNCHANGED <<coreVars, rop, reg, discVars, extVars>>

\* No request has been answered since the registry or the peers changed. A
\* request changes neither, so the requests are taken from these states.
Fresh == req = NoReq

\* A client's GET on the front-door.
FrontGet ==
    /\ Fresh
    /\ \E prefix \in PathPrefixes, group \in GroupNames, tail \in PathTails,
          o1 \in FrontOrigin, net \in NetStates :
          \* only the gRPC NodeGetter calls the node a second time
          \E o2 \in IF fd.protocol = "grpc" /\ net = "up" THEN FrontOrigin ELSE {o1} :
          req' = [GetCacheHandler(fd, ring, reg, SplitPath(prefix, group, tail), o1, o2, net)
                    EXCEPT !.op = "FrontGet", !.method = "GET", !.proto = fd.protocol,
                           !.group = group, !.tail = tail]
    /\ gop' = NoGop
    /\ UNCHANGED <<coreVars, ring, rop, reg, fd, discVars, extVars>>

\* A client's request on the cache node's own HTTP surface.
OwnerHTTP ==
    /\ Fresh
    /\ \E method \in {"GET", "DELETE", "PUT"}, group \in GroupNames, tail \in PathTails,
          reply \in FrontOrigin :
          req' = [cacheHandler(reg, method, group, tail, reply)
                    EXCEPT !.op = "OwnerHTTP", !.method = method, !.group = group,
                           !.tail = tail, !.asked = tail]
    /\ gop' = NoGop
    /\ UNCHANGED <<coreVars, ring, rop, reg, fd, discVars, extVars>>

\* A Get RPC on the cache node's gRPC surface.
OwnerRpcGet ==
    /\ Fresh
    /\ \E group \in GroupNames, key \in {EmptyString, <<"a">>}, reply \in FrontOrigin :
          \E ans \in {RpcReply(CacheServerGet(reg, group, key, reply))} :
             req' = [NoReq EXCEPT !.op = "RpcGet", !.proto = "grpc", !.group = group,
                                  !.asked = key, !.calls = 1, !.gerr = ans.err,
                                  !.code = ans.err.code, !.body = ans.value,
                                  !.origin = Consulted(reg, group, key, reply)]
    /\ gop' = NoGop
    /\ UNCHANGED <<coreVars, ring, rop, reg, fd, discVars, extVars>>

\* A Delete RPC on the cache node's gRPC surface.
OwnerRpcDelete ==
    /\ Fresh
    /\ \E group \in GroupNames, key \in {EmptyString, <<"a">>} :
          \E err \in {CacheServerDelete(reg, group, key)} :
             req' = [NoReq EXCEPT !.op = "RpcDelete", !.proto = "grpc", !.group = group,
                                  !.asked = key, !.calls = 1,
                                  !.gerr = IF err = NoErr THEN NoErr ELSE RpcError(err),
                                  !.code = IF err = NoErr THEN "OK" ELSE StatusCode(err)]
    /\ gop' = NoGop
    /\ UNCHANGED <<coreVars, ring, rop, reg, fd, discVars, extVars>>

FrontNext ==
    \/ FrontNewGroup
    \/ FrontGetGroup
    \/ UpdatePeers
    \/ FrontGet
    \/ OwnerHTTP
    \/ OwnerRpcGet
    \/ OwnerRpcDelete

SpecFront == FrontInit /\ [][FrontNext]_vars

\* C31: after every UpdatePeers call, for any peer list and any configured
\* replica count, the keys of the front-door's client map are the nodes
\* present in its ring.
C31_GettersAreRingNodes == MapNodes(ring) = fd.getters
\* The half of it that holds: a node of the ring has a client.
C31_RingNodesHaveGetters == MapNodes(ring) \subseteq fd.getters
\* The front-door was started with --replicas=0 and given peers: it has a
\* client for each and a ring with no node.
C31_NoReplicas == ring.replicas = 0 /\ fd.getters # {} /\ ring.keys = <<>>
\* With replicas > 0: every virtual node of a peer was overwritten in hashMap
\* by virtual nodes of peers added after it.
C31_Eclipsed == ring.replicas > 0 /\ fd.getters \ MapNodes(ring) # {}

(***************************************************************************)
(* Properties of the registry, the front-door and the node's surfaces      *)
(***************************************************************************)
\* C15: once NewGroup(name) has returned an instance, every later
\* GetGroup(name) returns that instance, whatever NewGroup and GetGroup calls
\* come between.
C15_GetGroupSameInstance ==
    (gop.op = "GetGroup" /\ reg.first[gop.name] # NoInstance) =>
        gop.result = reg.first[gop.name]

\* The last reply the origin getter gave while the request was served.
LastOrigin == req.origin[Len(req.origin)]
\* What Group.Get on the node came to, for the request that was answered.
OwnerOutcome ==
    IF req.calls = 0 THEN "none"
    ELSE IF GetGroup(reg, req.group) = NoInstance THEN "NoSuchGroup"
    ELSE IF req.asked = EmptyString THEN "EmptyKey"
    ELSE IF LastOrigin.err THEN "InternalError"
    ELSE IF LastOrigin.nil \/ Len(LastOrigin.bytes) = 0 THEN "NotFound"
    ELSE "ok"

\* C11: when the origin getter fails, whatever the text of its error, the
\* client's GET through the front-door is answered with 500, over gRPC and
\* over HTTP/Protobuf.
C11_OriginFailure500 ==
    (req.op = "FrontGet" /\ req.origin # <<>> /\ \A i \in DOMAIN req.origin : req.origin[i].err) =>
        req.status = 500

\* C12: the front-door's GET answers 200 with the value and Content-Type
\* application/octet-stream when the node succeeds, 404 for NotFound, 400
\* for EmptyKey, 404 for NoSuchGroup, and 503 with no RPC made when the ring
\* is empty or the node picked has no NodeGetter.
C12_FrontStatusMapping ==
    req.op = "FrontGet" =>
        /\ OwnerOutcome = "ok" =>
              /\ req.status = 200 /\ req.ctype = "application/octet-stream"
              /\ req.body = LastOrigin.bytes
        /\ OwnerOutcome = "NotFound" => req.status = 404
        /\ OwnerOutcome = "NoSuchGroup" => req.status = 404
        /\ req.gerr.type = "KeyEmpty" => req.status = 400
        /\ (req.asked # <<>> /\ (ring.keys = <<>> \/ req.asked[1] \notin DOMAIN ring.hash
                                   \/ MapGet(ring, req.asked[1]) \notin fd.getters)) =>
              (req.status = 503 /\ req.calls = 0 /\ req.origin = <<>>)
\* The node answered NotFound over gRPC, after the retry, and the client got
\* 404.
C12_Witness ==
    /\ req.op = "FrontGet" /\ req.proto = "grpc" /\ req.calls = 2
    /\ OwnerOutcome = "NotFound" /\ req.status = 404
\* The 503 of an empty ring, and the 400 of an EmptyKey error, happen.
C12_Unavailable == req.op = "FrontGet" /\ req.status = 503 /\ ring.keys = <<>>
C12_EmptyKey == req.op = "FrontGet" /\ req.status = 400 /\ req.gerr.type = "KeyEmpty"

\* C18: for every bytes the origin returns without error, the client's GET
\* through the front-door returns exactly those bytes, zero-length bytes
\* included.
C18_RoundTrip ==
    (req.op = "FrontGet" /\ req.origin # <<>> /\ ~LastOrigin.err) =>
        (req.status = 200 /\ req.body = LastOrigin.bytes)
\* The same for the bytes that are not empty.
C18_NonEmptyRoundTrip ==
    (req.op = "FrontGet" /\ req.origin # <<>> /\ ~LastOrigin.err /\ Len(LastOrigin.bytes) > 0) =>
        (req.status = 200 /\ req.body = LastOrigin.bytes)

\* C19: the node's gRPC Get and Delete answer an unregistered group with
\* code NotFound, an empty key with InvalidArgument, a key the origin does
\* not have with NotFound, and an origin failure with Internal.
C19_GrpcCodes ==
    req.op \in {"RpcGet", "RpcDelete"} =>
        IF GetGroup(reg, req.group) = NoInstance THEN req.code = "NotFound"
        ELSE IF req.asked = EmptyString THEN req.code = "InvalidArgument"
        ELSE IF req.op = "RpcGet" /\ LastOrigin.err THEN req.code = "Internal"
        ELSE IF req.op = "RpcGet" /\ (LastOrigin.nil \/ Len(LastOrigin.bytes) = 0)
        THEN req.code = "NotFound"
        ELSE req.code = "OK"

\* C20: on the node's own HTTP surface a request with an empty key is
\* answered with 400, for GET as for DELETE.
C20_EmptyKey400 ==
    (req.op = "OwnerHTTP" /\ req.method \in {"GET", "DELETE"} /\ req.tail = EmptyString
        /\ GetGroup(reg, req.group) # NoInstance) => req.status = 400
\* DELETE with an empty key is answered with 400.
C20_DeleteEmptyKey400 ==
    (req.op = "OwnerHTTP" /\ req.method = "DELETE" /\ req.tail = EmptyString
        /\ GetGroup(reg, req.group) # NoInstance) => req.status = 400

(***************************************************************************)
(* SpecDisc: cache nodes registering in etcd, and the front-door's watcher *)
(***************************************************************************)
\* The addresses stored under the service prefix.
Stored(e) == {n \in DiscNodes : e.keys[n] # NoLease}
\* etcd queues k events for the watcher, once its watch exists.
Emit(e, k) == IF sw.watching THEN [e EXCEPT !.events = @ + k] ELSE e
CanEmit(k) == sw.watching => etcd.events + k <= MaxEvents
\* gap: the store changed after the watcher's first get-prefix and before
\* its watch was created.
Noted(w) == [w EXCEPT !.gap = @ \/ (w.first /\ w.pc \in {"send", "watch"})]
\* etcd removes a lease and the keys attached to it.
Revoked(e, l) ==
    [e EXCEPT !.leases = @ \ {l},
              !.keys = [n \in DiscNodes |-> IF @[n] = l THEN NoLease ELSE @[n]]]
Attached(e, l) == {n \in DiscNodes : e.keys[n] = l}

\* Register: the test made under sd.mu before anything else.
AlreadyRegistered_Never(s) == FALSE
AlreadyRegistered(s) == s.registered

\* ServiceDiscovery.Register, with the etcd call that fails, if one does.
Register(n, fail) ==
    LET l == etcd.granted + 1
        granted == [etcd EXCEPT !.granted = l]
    IN IF AlreadyRegistered(sd[n]) \/ fail = "grant"
       THEN /\ dop' = [op |-> "Register", node |-> n, err |-> TRUE]
            /\ UNCHANGED <<etcd, sd, sw>>
       ELSE /\ etcd.granted < MaxLeases
            /\ CASE fail = "put" ->
                      \* Grant, Put fails, Revoke
                      /\ etcd' = granted
                      /\ sd' = [sd EXCEPT ![n].leaseID = l]
                      /\ sw' = sw
                      /\ dop' = [op |-> "Register", node |-> n, err |-> TRUE]
                 [] fail = "keepalive" ->
                      \* Grant, Put, KeepAlive fails, cleanupRegistration
                      /\ CanEmit(2)
                      /\ etcd' = Emit(granted, 2)
                      /\ sd' = [sd EXCEPT ![n].leaseID = NoLease]
                      /\ sw' = Noted(sw)
                      /\ dop' = [op |-> "Register", node |-> n, err |-> TRUE]
                 [] OTHER ->
                      \* Grant, Put, KeepAlive, go sd.keepAlive
                      /\ CanEmit(1)
                      /\ etcd' = Emit([granted EXCEPT !.leases = @ \cup {l}, !.keys[n] = l], 1)
                      /\ sd' = [sd EXCEPT ![n] = [registered |-> TRUE, leaseID |-> l, ka |-> l]]
                      /\ sw' = Noted(sw)
                      /\ dop' = [op |-> "Register", node |-> n, err |-> FALSE]

\* ServiceDiscovery.Unregister: close(stopChan), Revoke.
Unregister(n) ==
    LET l == sd[n].leaseID IN
    IF ~sd[n].registered
    THEN /\ dop' = [op |-> "Unregister", node |-> n, err |-> FALSE]
         /\ UNCHANGED <<etcd, sd, sw>>
    ELSE IF l \notin etcd.leases
    THEN \* Revoke fails: the lease is gone
         /\ sd' = [sd EXCEPT ![n].registered = FALSE, ![n].ka = NoLease]
         /\ dop' = [op |-> "Unregister", node |-> n, err |-> TRUE]
         /\ UNCHANGED <<etcd, sw>>
    ELSE /\ CanEmit(Cardinality(Attached(etcd, l)))
         /\ etcd' = Emit(Revoked(etcd, l), Cardinality(Attached(etcd, l)))
         /\ sd' = [sd EXCEPT ![n] = [registered |-> FALSE, leaseID |-> NoLease, ka |-> NoLease]]
         /\ sw' = IF Attached(etcd, l) = {} THEN sw ELSE Noted(sw)
         /\ dop' = [op |-> "Unregister", node |-> n, err |-> FALSE]

\* etcd: a lease runs out (its keepalives were lost).
LeaseExpire(l) ==
    /\ l \in etcd.leases
    /\ CanEmit(Cardinality(Attached(etcd, l)))
    /\ etcd' = Emit(Revoked(etcd, l), Cardinality(Attached(etcd, l)))
    /\ sw' = IF Attached(etcd, l) = {} THEN sw ELSE Noted(sw)
    /\ dop' = NoDop
    /\ UNCHANGED sd

\* ServiceDiscovery.keepAlive: the keepalive channel was closed.
keepAlive(n) ==
    /\ sd[n].ka # NoLease /\ sd[n].ka \notin etcd.leases
    /\ sd' = [sd EXCEPT ![n].registered = FALSE, ![n].ka = NoLease]
    /\ dop' = NoDop
    /\ UNCHANGED <<etcd, sw>>

\* syncPeers: the get-prefix.
syncPeers ==
    /\ sw.pc = "sync"
    /\ sw' = [sw EXCEPT !.pc = "send", !.peers = Stored(etcd)]
    /\ UNCHANGED <<etcd, api>>
\* syncPeers: updatesChan <- peers, received by the loop of ApiServer.Start.
SendUpdate ==
    /\ sw.pc = "send" /\ ~api.got
    /\ api' = [api EXCEPT !.got = TRUE, !.services = sw.peers]
    /\ sw' = [sw EXCEPT !.pc = IF sw.first THEN "watch" ELSE "loop", !.peers = {}]
    /\ UNCHANGED etcd
\* Watch: sw.cli.Watch(ctx, prefix, WithPrefix()), from the current revision.
Watch ==
    /\ sw.pc = "watch"
    /\ sw' = [sw EXCEPT !.pc = "loop", !.first = FALSE, !.watching = TRUE]
    /\ UNCHANGED <<etcd, api>>
\* Watch: a response with k events arrives; the node list is fetched again.
WatchResponse ==
    /\ sw.pc = "loop" /\ etcd.events > 0
    /\ \E k \in 1 .. etcd.events : etcd' = [etcd EXCEPT !.events = @ - k]
    /\ sw' = [sw EXCEPT !.pc = "sync"]
    /\ UNCHANGED api

\* isStringSliceEqual
isStringSliceEqual(a, b) == Cardinality(a) = Cardinality(b) /\ \A v \in b : v \in a
\* UpdatePeers: the ring made anew from the peers.
PeersRing(mp, peers) == MapAdd(MapNew(mp.replicas, mp.hash), SeqOfSet(peers))
\* NodeHandler.UpdateNodeAddresses(services), with the hook that calls
\* CacheHandler.UpdatePeers.
UpdateNodeAddresses ==
    /\ api.got
    /\ IF ~isStringSliceEqual(api.nodeAddresses, api.services)
       THEN /\ api' = [got |-> FALSE, services |-> {}, nodeAddresses |-> api.services]
            /\ ring' = PeersRing(ring, api.services)
            /\ fd' = [fd EXCEPT !.getters = api.services]
       ELSE /\ api' = [api EXCEPT !.got = FALSE, !.services = {}]
            /\ UNCHANGED <<ring, fd>>

DiscInit ==
    /\ now = 0
    /\ lc = New(0) /\ lhung = FALSE /\ last = NoCall
    /\ added = [k \in LruKeys |-> NotAdded] /\ used = <<>>
    /\ SfInit({})
    /\ GrpIdle
    /\ \E replicas \in 1 .. MaxReplicas : ring = MapNew(replicas, Crc32)
    /\ rop = NoRop
    /\ reg = NoReg /\ gop = NoGop
    /\ fd = NoFd /\ req = NoReq
    /\ DiscIdle
    /\ ExtIdle

DiscRest == UNCHANGED <<coreVars, rop, regVars, req, extVars>>
DiscRegister ==
    (\E n \in DiscNodes, fail \in {"none", "grant", "put", "keepalive"} : Register(n, fail))
        /\ UNCHANGED <<api, ring, fd>> /\ DiscRest
DiscUnregister == (\E n \in DiscNodes : Unregister(n)) /\ UNCHANGED <<api, ring, fd>> /\ DiscRest
DiscLeaseExpire ==
    (\E l \in 1 .. MaxLeases : LeaseExpire(l)) /\ UNCHANGED <<api, ring, fd>> /\ DiscRest
DiscKeepAlive == (\E n \in DiscNodes : keepAlive(n)) /\ UNCHANGED <<api, ring, fd>> /\ DiscRest
DiscSyncPeers == syncPeers /\ dop' = NoDop /\ UNCHANGED <<sd, ring, fd>> /\ DiscRest
DiscSendUpdate == SendUpdate /\ dop' = NoDop /\ UNCHANGED <<sd, ring, fd>> /\ DiscRest
DiscWatch == Watch /\ dop' = NoDop /\ UNCHANGED <<sd, ring, fd>> /\ DiscRest
DiscWatchResponse == WatchResponse /\ dop' = NoDop /\ UNCHANGED <<sd, ring, fd>> /\ DiscRest
DiscUpdateNodeAddresses ==
    UpdateNodeAddresses /\ dop' = NoDop /\ UNCHANGED <<etcd, sd, sw>> /\ DiscRest

DiscNext ==
    \/ DiscRegister
    \/ DiscUnregister
    \/ DiscLeaseExpire
    \/ DiscKeepAlive
    \/ DiscSyncPeers
    \/ DiscSendUpdate
    \/ DiscWatch
    \/ DiscWatchResponse
    \/ DiscUpdateNodeAddresses

SpecDisc == DiscInit /\ [][DiscNext]_vars

(***************************************************************************)
(* Properties of discovery                                                 *)
(***************************************************************************)
\* The watcher waits on its watch, no event is queued for it, and the
\* ApiServer has applied what it received.
Quiescent == sw.pc = "loop" /\ etcd.events = 0 /\ ~api.got
NodeListIsStored ==
    /\ api.nodeAddresses = Stored(etcd)
    /\ MapNodes(ring) = Stored(etcd)
    /\ fd.getters = Stored(etcd)
\* C13: once the registrations and revocations have been taken in, the
\* front-door's node list holds exactly the addresses that remain and its
\* ring only those nodes, whenever the registrations and revocations
\* happened relative to the watcher's first get-prefix and the start of its
\* watch.
C13_NodeListFollowsStore == Quiescent => NodeListIsStored
\* The same when the store did not change between the first get-prefix and
\* the creation of the watch.
C13_WithoutGap == (Quiescent /\ ~sw.gap) => NodeListIsStored

\* C14: a Register on a ServiceDiscovery that is registered, and whose lease
\* is alive, fails, grants no lease, writes nothing to the store, and leaves
\* the registration and its keepalive task as they are.
C14_Step ==
    \A n \in DiscNodes :
        (dop'.op = "Register" /\ dop'.node = n /\ sd[n].registered /\ sd[n].leaseID \in etcd.leases) =>
            (dop'.err /\ etcd' = etcd /\ sd' = sd)
C14_SecondRegisterFails == [][C14_Step]_vars
\* A Register was refused on a registered node whose key is in the store.
C14_Witness ==
    /\ dop.op = "Register" /\ dop.err
    /\ sd[dop.node].registered /\ sd[dop.node].leaseID \in etcd.leases
    /\ etcd.keys[dop.node] = sd[dop.node].leaseID

(***************************************************************************)
(* cmd/cachenode: the --ttl flag and the Group the process creates         *)
(* In SpecNode the clock counts the unit of time.Duration; Second of them  *)
(* make one second (time.Second is 1e9 of them in Go).                     *)
(***************************************************************************)
Second == 2
\* Gets served in one run (stats.Gets counts them).
MaxNodeGets == 4
\* Values of --ttl ("entry TTL in seconds", 0 = never).
TTLFlags == {0, 1}
\* Values of --cache-size.
CacheSizes == {0, 5}
\* The demo data source: every key has a value.
Db(key) == IF Len(key) = 1 THEN <<1>> ELSE <<1, 2>>

\* time.Duration(*ttl): the flag's number becomes that many units of
\* Duration.
DurationOfFlag(n) == n

NodeInit ==
    /\ now = 0
    /\ lc = New(0) /\ lhung = FALSE /\ last = NoCall
    /\ added = [k \in LruKeys |-> NotAdded] /\ used = <<>>
    /\ SfInit({})
    /\ \E n \in TTLFlags, b \in CacheSizes :
         /\ cn = [NoNode EXCEPT !.ttl = n]
         /\ grp = [ttl |-> DurationOfFlag(n), cacheBytes |-> b, peers |-> TRUE]
         /\ mc = [init |-> FALSE, lru |-> New(b), gets |-> 0, hits |-> 0]
    /\ loads = NoLoads
    /\ hist = NoHist
    /\ ring = NoRing /\ rop = NoRop /\ reg = NoReg /\ gop = NoGop
    /\ fd = NoFd /\ req = NoReq
    /\ DiscIdle
    /\ sr = NoSr /\ hm = NoHm /\ MoreIdle

\* Group.Get of one client on the owner: the cache lookup, and on a miss
\* getLocally (the data source, then populateCache with the group's ttl).
NodeGet ==
    /\ mc.gets < MaxNodeGets
    /\ \E key \in LruKeys \ {""} :
         \E r \in {IF mc.init THEN Get(mc.lru, key, now)
                   ELSE [c |-> mc.lru, value |-> NoVal, ok |-> FALSE]} :
           IF r.ok
           THEN /\ mc' = [mc EXCEPT !.lru = Collect(r.c, {}), !.gets = @ + 1, !.hits = @ + 1]
                /\ cn' = [cn EXCEPT !.got = [key |-> key, hit |-> TRUE, since |-> cn.loaded[key]]]
           ELSE \E a \in {Add(r.c, key, Db(key), grp.ttl, now, FreshEle(r.c, {}))} :
                /\ ~a.hangs
                /\ mc' = [mc EXCEPT !.init = TRUE, !.lru = Collect(a.c, {}), !.gets = @ + 1]
                /\ cn' = [cn EXCEPT
                            !.got = [key |-> key, hit |-> FALSE, since |-> cn.loaded[key]],
                            !.loaded = [k \in LruKeys |->
                                          IF k \in Range(a.evicted) THEN NoTime
                                          ELSE IF k = key THEN now ELSE @[k]]]
    /\ UNCHANGED <<now, lruVars, sfVars, grp, loads, hist>>
    /\ UNCHANGED <<ring, rop, regVars, frontVars, discVars, sr, hm, moreVars>>

NodeTick ==
    /\ now < MaxClock
    /\ now' = now + 1
    /\ cn' = [cn EXCEPT !.got = NoGot]
    /\ UNCHANGED <<lruVars, sfVars, grpVars>>
    /\ UNCHANGED <<ring, rop, regVars, frontVars, discVars, sr, hm, moreVars>>

NodeNext == NodeGet \/ NodeTick

SpecNode == NodeInit /\ [][NodeNext]_vars

\* The Get just served asked for a key that was loaded before and not
\* evicted since, on an owner started with --ttl > 0.
GetOfLoaded == cn.ttl > 0 /\ cn.got.key # "" /\ cn.got.since # NoTime
\* C21: an owner started with --ttl = N > 0 serves an entry loaded at time t
\* from the cache for reads up to t + N seconds, and not after that.
C21_TTLInSeconds ==
    GetOfLoaded =>
        /\ now <= cn.got.since + cn.ttl * Second => cn.got.hit
        /\ now > cn.got.since + cn.ttl * Second => ~cn.got.hit
\* What the owner does: the entry lives N units of Duration.
C21_TTLInDurationUnits ==
    GetOfLoaded =>
        /\ now <= cn.got.since + cn.ttl => cn.got.hit
        /\ now > cn.got.since + cn.ttl => ~cn.got.hit

(***************************************************************************)
(* SpecChan: concurrent Do and DoChan calls on one singleflight.Group      *)
(*   goroutine of a DoChan call:                                           *)
(*     "chfn" -fn-> "chwg" -wg.Done-> "chsend" -ch<- -> "chdelete"         *)
(*            -delete(g.m, key)-> "done"                                   *)
(***************************************************************************)
\* c.wg.Wait() returns for this call.
Released(c) == calls[c].state \in {"chsend", "chdelete", "done"}
\* The Result of this DoChan call is in its channel (or was received).
Delivered(c) == calls[c].state \in {"chdelete", "done"} /\ calls[c].runs = 1

ChanStart(p) ==
    /\ procs[p].pc = "idle"
    /\ count < MaxDo
    /\ \E key \in SfKeys, op \in {"do", "dochan"} :
         procs' = [procs EXCEPT ![p].pc = op, ![p].key = key]
    /\ count' = count + 1
    /\ UNCHANGED <<m, calls, res>>

\* DoChan up to its return: under g.mu, join the call in the map (a goroutine
\* will wait for it and forward the result), or create one and start the
\* goroutine that runs fn. The caller then receives from ch.
DoChan(p) ==
    /\ procs[p].pc = "dochan"
    /\ LET key == procs[p].key
           c == InFlight(m, key)
       IN IF c # NoCallId
          THEN /\ procs' = [procs EXCEPT ![p].pc = "recv", ![p].call = c, ![p].saw = c]
               /\ UNCHANGED <<m, calls>>
          ELSE /\ procs' = [procs EXCEPT ![p].pc = "recv", ![p].call = FreshCall,
                                         ![p].saw = NoCallId]
               /\ m' = MapPut(m, key, FreshCall)
               /\ calls' = [calls EXCEPT ![FreshCall] =
                              [FreeCall EXCEPT !.state = "chfn", !.key = key]]
    /\ UNCHANGED <<res, count>>

\* DoChan's goroutine: c.val, c.err = fn()
ChanFn(c) ==
    /\ calls[c].state = "chfn"
    /\ \E r \in FnResults :
         calls' = [calls EXCEPT ![c].state = "chwg", ![c].val = r.val, ![c].err = r.err,
                                ![c].runs = @ + 1, ![c].out = <<r.val, r.err>>]
    /\ UNCHANGED <<m, procs, res, count>>

\* DoChan's goroutine: c.wg.Done()
ChanDone(c) ==
    /\ calls[c].state = "chwg"
    /\ calls' = [calls EXCEPT ![c].state = "chsend"]
    /\ UNCHANGED <<m, procs, res, count>>

\* DoChan's goroutine: ch <- Result{c.val, c.err, false} (ch has room for one)
ChanSend(c) ==
    /\ calls[c].state = "chsend"
    /\ calls' = [calls EXCEPT ![c].state = "chdelete"]
    /\ UNCHANGED <<m, procs, res, count>>

\* DoChan's goroutine: lock, delete(g.m, key), unlock.
ChanDelete(c) ==
    /\ calls[c].state = "chdelete"
    /\ m' = MapDelete(m, calls[c].key)
    /\ calls' = Swept(m', [calls EXCEPT ![c].state = "done"], procs)
    /\ UNCHANGED <<procs, res, count>>

\* The caller of DoChan receives the Result: from the goroutine that ran fn,
\* or from the one that waited on c.wg for a call it joined.
ChanRecv(p) ==
    /\ procs[p].pc = "recv"
    /\ IF procs[p].saw = NoCallId THEN Delivered(procs[p].call) ELSE Released(procs[p].call)
    /\ res' = [res EXCEPT ![p] = Returned(p, "DoChan")]
    /\ procs' = [procs EXCEPT ![p] = IdleProc]
    /\ calls' = Swept(m, calls, procs')
    /\ UNCHANGED <<m, count>>

\* Do after c.wg.Wait(): return c.val, c.err.
ChanDoReturn(p) ==
    /\ procs[p].pc = "wait"
    /\ Released(procs[p].call)
    /\ res' = [res EXCEPT ![p] = Returned(p, "Do")]
    /\ procs' = [procs EXCEPT ![p] = IdleProc]
    /\ calls' = Swept(m, calls, procs')
    /\ UNCHANGED <<m, count>>

ChCall == (\E p \in DOMAIN procs : ChanStart(p)) /\ SfRest
ChDoChan == (\E p \in DOMAIN procs : DoChan(p)) /\ SfRest
ChFn == (\E c \in CallIds : ChanFn(c)) /\ SfRest
ChDone == (\E c \in CallIds : ChanDone(c)) /\ SfRest
ChSend == (\E c \in CallIds : ChanSend(c)) /\ SfRest
ChDelete == (\E c \in CallIds : ChanDelete(c)) /\ SfRest
ChRecv == (\E p \in DOMAIN procs : ChanRecv(p)) /\ SfRest
ChDoReturn == (\E p \in DOMAIN procs : ChanDoReturn(p)) /\ SfRest

ChanNext ==
    \/ ChCall \/ ChDoChan \/ ChFn \/ ChDone \/ ChSend \/ ChDelete \/ ChRecv \/ ChDoReturn
    \/ SfDoEnter \/ SfFnReturn \/ SfDoCallDelete \/ SfDoCallDone

SpecChan == SfInitAll /\ [][ChanNext]_vars

\* A caller passing the map lookup of Do or DoChan after the Result of a
\* DoChan call for its key was delivered holds a new call.
C23_EnterStep ==
    \A p \in DOMAIN procs :
        (/\ procs[p].pc \in {"do", "dochan"} /\ procs'[p].pc \in {"wait", "recv"}
         /\ \E c \in CallIds : calls[c].key = procs[p].key /\ Delivered(c))
        => /\ procs'[p].saw = NoCallId
           /\ calls'[procs'[p].call].state \in {"fn", "chfn"}
           /\ calls'[procs'[p].call].runs = 0
\* C23: DoChan deletes the finished call from the map before it releases the
\* waiters and publishes the result: once the Result of a DoChan call for a
\* key is delivered, a caller entering Do or DoChan for that key creates a
\* fresh call that has not run fn, and does not get the completed call.
C23_DeleteBeforePublish == [][C23_EnterStep]_vars
\* What DoChan does for the map: a key nobody waits on and no DoChan
\* goroutine still has to delete has no entry.
C23_MapDrains ==
    \A k \in SfKeys :
        (/\ \A p \in DOMAIN procs : ~(procs[p].pc \in {"wait", "recv"} /\ procs[p].key = k)
         /\ \A c \in CallIds : ~(calls[c].key = k /\ calls[c].state \in {"chsend", "chdelete"}))
        => k \notin DOMAIN m

(***************************************************************************)
(* SpecConc: concurrent Get, Add, Delete and Clear on one lru.Cache        *)
(* Add, Delete and Clear run under c.mu.Lock and are one step each. Get    *)
(* looks the key up under RLock, releases it, and takes Lock for the rest: *)
(* two steps, with the element it found carried from one to the other.     *)
(***************************************************************************)
\* Calls started in one run.
MaxConcOps == 4
ConcKeys == {"a", "bb"}
\* Entries are added with a positive ttl.
ConcTTL == 1

ConcInit ==
    /\ now = 0
    /\ lc = New(0) /\ lhung = FALSE /\ last = NoCall
    /\ added = [k \in LruKeys |-> NotAdded] /\ used = <<>>
    /\ SfInit(GrpProcs)
    /\ GrpIdle
    /\ NetIdle

\* What a caller's Get returned.
GetResult(key, r) == [NoRes EXCEPT !.op = "Get", !.key = key, !.val = r.value, !.hit = r.ok]

\* Get, under RLock: the lookup. A miss returns at once.
ConcGet(p, key) ==
    /\ procs[p].pc = "idle"
    /\ count < MaxConcOps
    /\ count' = count + 1
    /\ LET ele == GetLookup(lc, key) IN
       IF ele = NoEle
       THEN /\ res' = [res EXCEPT ![p] = [NoRes EXCEPT !.op = "Get", !.key = key]]
            /\ UNCHANGED procs
       ELSE /\ procs' = [procs EXCEPT ![p] = [IdleProc EXCEPT !.pc = "locked", !.key = key,
                                                                !.ele = ele]]
            /\ res' = [res EXCEPT ![p] = NoRes]
    /\ UNCHANGED <<now, lruVars, m, calls, grpVars, netVars>>

\* Get, under Lock: expiry removal or MoveToBack, on the element found before.
ConcGetLocked(p) ==
    /\ procs[p].pc = "locked"
    /\ \E r \in {GetLocked(lc, procs[p].key, procs[p].ele, now)} :
         LET ps == [procs EXCEPT ![p] = IdleProc] IN
         /\ lc' = SettledLru(r.c, ps)
         /\ procs' = SettledProcs(r.c, ps)
         /\ res' = [res EXCEPT ![p] = GetResult(procs[p].key, r)]
    /\ UNCHANGED <<now, lhung, last, added, used, m, calls, count, grpVars, netVars>>

ConcAdd ==
    /\ count < MaxConcOps
    /\ count' = count + 1
    /\ \E key \in ConcKeys, value \in Values :
         \E r \in {Add(lc, key, value, ConcTTL, now, FreshEle(lc, HeldEles(procs)))} :
           /\ ~r.hangs
           /\ lc' = SettledLru(r.c, procs)
           /\ procs' = SettledProcs(r.c, procs)
    /\ UNCHANGED <<now, lhung, last, added, used, m, calls, res, grpVars, netVars>>

ConcDelete ==
    /\ count < MaxConcOps
    /\ count' = count + 1
    /\ \E key \in ConcKeys :
         \E r \in {Delete(lc, key)} :
           /\ lc' = SettledLru(r.c, procs)
           /\ procs' = SettledProcs(r.c, procs)
    /\ UNCHANGED <<now, lhung, last, added, used, m, calls, res, grpVars, netVars>>

ConcClear ==
    /\ count < MaxConcOps
    /\ count' = count + 1
    /\ \E r \in {Clear(lc)} :
         /\ lc' = SettledLru(r, procs)
         /\ procs' = SettledProcs(r, procs)
    /\ UNCHANGED <<now, lhung, last, added, used, m, calls, res, grpVars, netVars>>

ConcTick ==
    /\ now < MaxClock
    /\ now' = now + 1
    /\ UNCHANGED <<lruVars, sfVars, grpVars, netVars>>

ConcGetLookup == \E p \in DOMAIN procs, key \in ConcKeys : ConcGet(p, key)
ConcGetUpgrade == \E p \in DOMAIN procs : ConcGetLocked(p)

ConcNext == ConcGetLookup \/ ConcGetUpgrade \/ ConcAdd \/ ConcDelete \/ ConcClear \/ ConcTick

SpecConc == ConcInit /\ [][ConcNext]_vars

\* Between operations the recency list and the index hold the same keys.
C24_SameKeys ==
    /\ Range(KeysInOrder(lc)) = DOMAIN lc.cache
    /\ Len(lc.ll) = Cardinality(DOMAIN lc.cache)
\* When Get takes the exclusive lock, the element it holds is the one the
\* index has for its key.
C24_GetStep ==
    \A p \in DOMAIN procs :
        (procs[p].pc = "locked" /\ procs'[p].pc = "idle") =>
            /\ procs[p].key \in DOMAIN lc.cache
            /\ lc.cache[procs[p].key] = procs[p].ele
\* C24: under any interleaving of concurrent Get, Add, Delete and Clear on
\* one lru.Cache the recency list and the index hold identical key sets
\* whenever no operation holds the lock, and a Get removes or returns only
\* the entry that is current for its key when it holds the exclusive lock.
C24_ConcurrentGetSafe == []C24_SameKeys /\ [][C24_GetStep]_vars

(***************************************************************************)
(* SpecWrap: the Group's cache wrapper around the lru.Cache                *)
(* cache.get holds the wrapper's mutex shared for the whole of lru.Get, so *)
(* several Gets run together; cache.add holds it exclusively.              *)
(***************************************************************************)
WrapInit ==
    /\ now = 0
    /\ lc = New(0) /\ lhung = FALSE /\ last = NoCall
    /\ added = [k \in LruKeys |-> NotAdded] /\ used = <<>>
    /\ SfInit(GrpProcs)
    /\ \E b \in CacheSizes :
         /\ grp = [ttl |-> ConcTTL, cacheBytes |-> b, peers |-> FALSE]
         /\ mc = [init |-> FALSE, lru |-> New(b), gets |-> 0, hits |-> 0]
    /\ loads = NoLoads
    /\ hist = NoHist
    /\ NetIdle

\* cache.add (from populateCache): exclusive lock, lazy lru.New, lru.Add.
WrapAdd ==
    /\ Readers = {}
    /\ count < MaxConcOps
    /\ count' = count + 1
    /\ \E key \in ConcKeys, value \in Values :
         \E r \in {Add(mc.lru, key, value, grp.ttl, now, FreshEle(mc.lru, {}))} :
           /\ ~r.hangs
           /\ mc' = [mc EXCEPT !.init = TRUE, !.lru = Collect(r.c, {})]
    /\ UNCHANGED <<now, lruVars, m, calls, procs, res, grp, loads, hist, netVars>>

\* cache.get: shared lock, count the get, lru.Get up to its RUnlock.
WrapGet(p, key) ==
    /\ procs[p].pc = "idle"
    /\ count < MaxConcOps
    /\ count' = count + 1
    /\ mc' = [mc EXCEPT !.gets = @ + 1]
    /\ LET ele == IF mc.init THEN GetLookup(mc.lru, key) ELSE NoEle IN
       IF ele = NoEle
       THEN /\ res' = [res EXCEPT ![p] = [NoRes EXCEPT !.op = "Get", !.key = key]]
            /\ UNCHANGED procs
       ELSE /\ procs' = [procs EXCEPT ![p] = [IdleProc EXCEPT !.pc = "locked", !.key = key,
                                                                !.ele = ele]]
            /\ res' = [res EXCEPT ![p] = NoRes]
    /\ UNCHANGED <<now, lruVars, m, calls, grp, loads, hist, netVars>>

\* lru.Get under its exclusive lock, then cache.get counts the hit and
\* releases the shared lock.
WrapGetLocked(p) ==
    /\ procs[p].pc = "locked"
    /\ \E r \in {GetLocked(mc.lru, procs[p].key, procs[p].ele, now)} :
         LET ps == [procs EXCEPT ![p] = IdleProc] IN
         /\ mc' = [mc EXCEPT !.lru = SettledLru(r.c, ps), !.hits = IF r.ok THEN @ + 1 ELSE @]
         /\ procs' = SettledProcs(r.c, ps)
         /\ res' = [res EXCEPT ![p] = GetResult(procs[p].key, r)]
    /\ UNCHANGED <<now, lruVars, m, calls, count, grp, loads, hist, netVars>>

WrapTick ==
    /\ now < MaxClock
    /\ now' = now + 1
    /\ UNCHANGED <<lruVars, sfVars, grpVars, netVars>>

WrapGetLookup == \E p \in DOMAIN procs, key \in ConcKeys : WrapGet(p, key)
WrapGetUpgrade == \E p \in DOMAIN procs : WrapGetLocked(p)

WrapNext == WrapAdd \/ WrapGetLookup \/ WrapGetUpgrade \/ WrapTick

SpecWrap == WrapInit /\ [][WrapNext]_vars

\* C25: when several Group.Get calls for one key run together and the cached
\* entry is expired, its size is subtracted from nbytes once: after the Gets
\* nbytes is the sum of len(key) + value.Len() over the entries in the
\* cache, and it is never negative.
C25_ExpirySubtractedOnce ==
    /\ mc.lru.nbytes >= 0
    /\ Readers = {} => mc.lru.nbytes = ListBytes(mc.lru, mc.lru.ll)

(***************************************************************************)
(* SpecReg: Register, Unregister and the keepAlive goroutines of one       *)
(* ServiceDiscovery                                                        *)
(* Register and Unregister hold sd.mu from start to end and are one step   *)
(* each. A keepAlive goroutine is [lease, stop, pc]: the lease whose       *)
(* keepalive channel it reads, the stopChan it is selecting on (sd.stopChan*)
(* as read when it entered the select), and "run" or "lock" (it saw the    *)
(* keepalive channel closed and waits for sd.mu).                          *)
(***************************************************************************)
\* The stopChan with this number has been closed.
StopClosed(g) == g < sr.gen \/ (g = sr.gen /\ sr.stopClosed)
Task(l) == [lease |-> l, stop |-> sr.gen, pc |-> "run"]
Running(l) == \E t \in sr.tasks : t.lease = l /\ t.pc = "run"

\* Register: `go sd.keepAlive(keepAliveChan)` is reached when no etcd call
\* failed.
StartsKeepAlive_Always(fail) == TRUE
StartsKeepAlive(fail) == fail = "none"
\* etcd after Revoke(l): without the lease, and without the key attached to
\* it; as before when the call does not reach etcd.
LeaseRevoke(s, l, lost) ==
    IF lost THEN s
    ELSE [s EXCEPT !.leases = @ \ {l}, !.key = IF @ = l THEN NoLease ELSE @]
\* cleanupRegistration: Revoke if sd.leaseID != 0, sd.leaseID = 0, then Delete
\* of sd.key; lost and dlost: the Revoke and the Delete do not reach etcd.
cleanupRegistration(s, lost, dlost) ==
    LET r == IF s.leaseID # NoLease THEN LeaseRevoke(s, s.leaseID, lost) ELSE s IN
    [r EXCEPT !.leaseID = NoLease, !.key = IF dlost THEN @ ELSE NoLease]
\* ServiceDiscovery.Register, with the etcd call that fails, if one does, and
\* with what becomes of the Revoke and the Delete of the failure paths.
RegRegister(fail, lost, dlost) ==
    /\ ~sr.panicked
    /\ IF sr.registered \/ fail = "grant"
       THEN UNCHANGED sr
       ELSE /\ sr.granted < MaxLeases
            /\ LET l == sr.granted + 1
                   granted == [sr EXCEPT !.granted = l, !.leaseID = l, !.leases = @ \cup {l}]
                   put == [granted EXCEPT !.key = l]
                   started == [tasks |-> IF StartsKeepAlive(fail) THEN {Task(l)} ELSE {}]
               IN
               CASE fail = "put" ->
                      sr' = [LeaseRevoke(granted, l, lost) EXCEPT !.tasks = @ \cup started.tasks]
                 [] fail = "keepalive" ->
                      sr' = [cleanupRegistration(put, lost, dlost) EXCEPT
                                !.tasks = @ \cup started.tasks]
                 [] OTHER ->
                      sr' = [put EXCEPT !.tasks = @ \cup started.tasks,
                                        !.registered = TRUE, !.cur = l]

\* ServiceDiscovery.Unregister; lost: the Revoke call does not reach etcd.
\* close() of a closed channel panics.
RegUnregister(lost) ==
    /\ ~sr.panicked
    /\ IF ~sr.registered THEN UNCHANGED sr
       ELSE IF sr.stopClosed THEN sr' = [sr EXCEPT !.panicked = TRUE]
       ELSE IF lost \/ sr.leaseID \notin sr.leases
       THEN sr' = [sr EXCEPT !.stopClosed = TRUE, !.registered = FALSE,
                             !.cur = NoLease, !.after = TRUE]
       ELSE sr' = [LeaseRevoke(sr, sr.leaseID, FALSE) EXCEPT
                             !.registered = FALSE, !.leaseID = NoLease,
                             !.gen = @ + 1, !.stopClosed = FALSE,
                             !.cur = NoLease, !.after = TRUE]

\* etcd: a lease runs out.
RegLeaseExpire(l) ==
    /\ ~sr.panicked
    /\ l \in sr.leases
    /\ sr' = LeaseRevoke(sr, l, FALSE)

\* keepAlive: a keepalive response arrives; the loop enters the select again
\* and reads sd.stopChan.
KeepAliveResponse(t) ==
    /\ ~sr.panicked
    /\ t.pc = "run" /\ t.lease \in sr.leases /\ t.stop # sr.gen
    /\ sr' = [sr EXCEPT !.tasks = (@ \ {t}) \cup {[t EXCEPT !.stop = sr.gen]}]

\* keepAlive: case <-sd.stopChan
KeepAliveStop(t) ==
    /\ ~sr.panicked
    /\ t.pc = "run" /\ StopClosed(t.stop)
    /\ sr' = [sr EXCEPT !.tasks = @ \ {t}]

\* keepAlive: case kaResp, ok := <-keepAliveChan with !ok
KeepAliveClosed(t) ==
    /\ ~sr.panicked
    /\ t.pc = "run" /\ t.lease \notin sr.leases
    /\ sr' = [sr EXCEPT !.tasks = (@ \ {t}) \cup {[t EXCEPT !.pc = "lock"]}]

\* keepAlive: sd.mu.Lock(); sd.registered = false; sd.mu.Unlock(); return
KeepAliveClear(t) ==
    /\ ~sr.panicked
    /\ t.pc = "lock"
    /\ sr' = [sr EXCEPT !.tasks = @ \ {t}, !.registered = FALSE]

RegRest == UNCHANGED <<coreVars, ring, rop, regVars, frontVars, discVars, cn, hm, moreVars>>
RegInit ==
    /\ now = 0
    /\ lc = New(0) /\ lhung = FALSE /\ last = NoCall
    /\ added = [k \in LruKeys |-> NotAdded] /\ used = <<>>
    /\ SfInit({})
    /\ GrpIdle
    /\ NetIdle
SrRegister ==
    /\ \E fail \in {"none", "grant", "put", "keepalive"}, lost, dlost \in BOOLEAN :
          RegRegister(fail, lost, dlost)
    /\ RegRest
SrUnregister == (\E lost \in BOOLEAN : RegUnregister(lost)) /\ RegRest
SrLeaseExpire == (\E l \in sr.leases : RegLeaseExpire(l)) /\ RegRest
SrResponse == (\E t \in sr.tasks : KeepAliveResponse(t)) /\ RegRest
SrStop == (\E t \in sr.tasks : KeepAliveStop(t)) /\ RegRest
SrClosed == (\E t \in sr.tasks : KeepAliveClosed(t)) /\ RegRest
SrClear == (\E t \in sr.tasks : KeepAliveClear(t)) /\ RegRest

RegNext ==
    SrRegister \/ SrUnregister \/ SrLeaseExpire \/ SrResponse \/ SrStop \/ SrClosed \/ SrClear

SpecReg == RegInit /\ [][RegNext]_vars

\* C28: after Unregister has returned on a registered instance, whether the
\* Revoke succeeded or failed, a following Register starts cleanly: while
\* its lease is held its keepAlive goroutine keeps running, until the next
\* Unregister, and that Unregister completes normally.
C28_CleanAfterUnregister ==
    sr.after =>
        /\ ~sr.panicked
        /\ (sr.registered /\ sr.cur # NoLease /\ sr.cur \in sr.leases) => Running(sr.cur)

\* C29: under any interleaving of Register, Unregister and the closing of
\* keepalive channels, registered is true only after a Register that
\* succeeded and no Unregister since, and it stays true while that
\* Register's lease is held and its keepAlive goroutine runs: a goroutine
\* whose channel was closed by an Unregister's Revoke never clears the flag
\* set by a later Register.
C29_FlagFollowsLease ==
    /\ sr.registered => sr.cur # NoLease
    /\ (sr.cur # NoLease /\ sr.cur \in sr.leases /\ Running(sr.cur)) => sr.registered

\* A step of Register that failed after the lease was granted: a lease was
\* granted and the instance is not registered.
FailedAfterGrant == sr'.granted = sr.granted + 1 /\ ~sr'.registered
C36_RevokedStep ==
    FailedAfterGrant =>
        /\ sr'.granted \notin sr'.leases
        /\ sr'.key # sr'.granted
        /\ \A t \in sr'.tasks : t.lease # sr'.granted
        /\ ~sr'.registered
C36_AttemptStep ==
    FailedAfterGrant =>
        \* no keepalive task for the lease, and the instance is unregistered
        /\ \A t \in sr'.tasks : t.lease # sr'.granted
        /\ ~sr'.registered
        \* the key is left only on the lease whose Revoke failed
        /\ sr'.key = sr'.granted => sr'.granted \in sr'.leases
        \* put failed: sd.leaseID keeps the lease
        /\ sr'.leaseID # NoLease => sr'.leaseID = sr'.granted
MaxUpdates == 2
MaxPicks == 2
PickKeys == {"a", "ccc"}

\* h.mu.RLock() and h.mu.Lock() can proceed.
CanRLock_Always(h) == TRUE
CanRLock(h) == ~h.writer
CanLock(h) == ~h.writer /\ h.readers = {}

\* UpdatePeers is called and waits for h.mu.
PeersCall ==
    /\ hm.up.pc = "idle" /\ hm.updates < MaxUpdates
    /\ \E peers \in SUBSET RingNodes :
         hm' = [hm EXCEPT !.up = [pc |-> "lock", peers |-> peers], !.updates = @ + 1]
    /\ UNCHANGED <<ring, fd>>
\* h.mu.Lock()
PeersLock ==
    /\ hm.up.pc = "lock" /\ CanLock(hm)
    /\ hm' = [hm EXCEPT !.up.pc = "ring", !.writer = TRUE]
    /\ UNCHANGED <<ring, fd>>
\* h.ring = consistenthash.New(h.replicas, nil); h.ring.Add(peers...)
PeersSetRing ==
    /\ hm.up.pc = "ring"
    /\ ring' = PeersRing(ring, hm.up.peers)
    /\ hm' = [hm EXCEPT !.up.pc = "getters", !.rv = @ + 1]
    /\ UNCHANGED fd
\* h.nodeGetters = newGetters, and the deferred h.mu.Unlock()
PeersSetGetters ==
    /\ hm.up.pc = "getters"
    /\ fd' = [fd EXCEPT !.getters = hm.up.peers]
    /\ hm' = [hm EXCEPT !.up = [pc |-> "idle", peers |-> {}], !.gv = @ + 1, !.writer = FALSE]
    /\ UNCHANGED ring

\* pickNode(key) is called and waits for h.mu.
PickCall(p) ==
    /\ hm.pk[p].pc \in {"idle", "done"} /\ hm.picks < MaxPicks
    /\ \E key \in PickKeys :
         hm' = [hm EXCEPT !.pk[p] = [IdlePick EXCEPT !.pc = "rlock", !.key = key], !.picks = @ + 1]
    /\ UNCHANGED <<ring, fd>>
\* h.mu.RLock()
PickRLock(p) ==
    /\ hm.pk[p].pc = "rlock" /\ CanRLock(hm)
    /\ hm' = [hm EXCEPT !.pk[p].pc = "len", !.readers = @ \cup {p}]
    /\ UNCHANGED <<ring, fd>>
\* pickNode returns node (the deferred h.mu.RUnlock()).
PickReturn(h, p, node, seen) ==
    [h EXCEPT !.pk[p] = [@ EXCEPT !.pc = "done", !.node = node, !.seen = seen],
              !.readers = @ \ {p}]
\* if len(h.nodeGetters) == 0
PickLen(p) ==
    /\ hm.pk[p].pc = "len"
    /\ LET seen == hm.pk[p].seen \cup {<<"getters", hm.gv>>} IN
       hm' = IF fd.getters = {} THEN PickReturn(hm, p, "", seen)
             ELSE [hm EXCEPT !.pk[p].pc = "ring", !.pk[p].seen = seen]
    /\ UNCHANGED <<ring, fd>>
\* node := h.ring.Get(key)
PickRing(p) ==
    /\ hm.pk[p].pc = "ring"
    /\ LET seen == hm.pk[p].seen \cup {<<"ring", hm.rv>>}
           node == MapGet(ring, hm.pk[p].key)
       IN hm' = IF node = "" THEN PickReturn(hm, p, "", seen)
                ELSE [hm EXCEPT !.pk[p].pc = "getter", !.pk[p].node = node, !.pk[p].seen = seen]
    /\ UNCHANGED <<ring, fd>>
\* getter, ok := h.nodeGetters[node]
PickGetter(p) ==
    /\ hm.pk[p].pc = "getter"
    /\ LET seen == hm.pk[p].seen \cup {<<"getters", hm.gv>>}
           node == hm.pk[p].node
       IN hm' = PickReturn(hm, p, IF node \in fd.getters THEN node ELSE "", seen)
    /\ UNCHANGED <<ring, fd>>

PeersRest == UNCHANGED <<coreVars, rop, regVars, req, discVars, cn, sr, moreVars>>
PeersInit ==
    /\ now = 0
    /\ lc = New(0) /\ lhung = FALSE /\ last = NoCall
    /\ added = [k \in LruKeys |-> NotAdded] /\ used = <<>>
    /\ SfInit({})
    /\ GrpIdle
    /\ \E replicas \in 1 .. MaxReplicas : ring = MapNew(replicas, Crc32)
    /\ rop = NoRop
    /\ reg = NoReg /\ gop = NoGop
    /\ fd = NoFd /\ req = NoReq
    /\ DiscIdle
    /\ ExtIdle
PsCall == PeersCall /\ PeersRest
PsLock == PeersLock /\ PeersRest
PsSetRing == PeersSetRing /\ PeersRest
PsSetGetters == PeersSetGetters /\ PeersRest
PsPickCall == (\E p \in Pickers : PickCall(p)) /\ PeersRest
PsPickRLock == (\E p \in Pickers : PickRLock(p)) /\ PeersRest
PsPickLen == (\E p \in Pickers : PickLen(p)) /\ PeersRest
PsPickRing == (\E p \in Pickers : PickRing(p)) /\ PeersRest
PsPickGetter == (\E p \in Pickers : PickGetter(p)) /\ PeersRest

PeersNext ==
    \/ PsCall \/ PsLock \/ PsSetRing \/ PsSetGetters
    \/ PsPickCall \/ PsPickRLock \/ PsPickLen \/ PsPickRing \/ PsPickGetter

SpecPeers == PeersInit /\ [][PeersNext]_vars

\* C30: a pickNode that runs while UpdatePeers is called sees the ring and
\* the getter map of the same update: every read it made saw the value of
\* one and the same assignment number, and while it holds the lock the ring
\* names only nodes of the getter map, so the node the ring gave it has a
\* getter.
C30_PickSeesOnePair ==
    \A p \in Pickers :
        /\ Cardinality({x[2] : x \in hm.pk[p].seen}) <= 1
        /\ p \in hm.readers => (hm.rv = hm.gv /\ MapNodes(ring) \subseteq fd.getters)
        /\ hm.pk[p].pc = "getter" =>
              hm.pk[p].node = MapGet(ring, hm.pk[p].key) /\ hm.pk[p].node \in fd.getters
\* A picker has read the ring of the first update and is about to read the
\* getter map while the second UpdatePeers waits for the lock.
C30_Witness ==
    /\ hm.up.pc = "lock" /\ hm.updates = 2
    /\ \E p \in Pickers : hm.pk[p].pc = "getter" /\ hm.pk[p].seen = {<<"getters", 1>>, <<"ring", 1>>}

\* ---------------------------------------------------------------------------
\* SpecOrder: two Maps of the same New(replicas, fn), one node per Add. The
\* first Map is given some nodes, the second the same nodes in any order, and
\* then both are asked for every key.
\* ---------------------------------------------------------------------------
\* The variables of the other specifications.
baseVars == <<coreVars, ring, rop, regVars, frontVars, discVars, cn, sr, hm>>
BaseInit ==
    /\ now = 0
    /\ lc = New(0) /\ lhung = FALSE /\ last = NoCall
    /\ added = [k \in LruKeys |-> NotAdded] /\ used = <<>>
    /\ SfInit({})
    /\ GrpIdle
    /\ ring = NoRing /\ rop = NoRop
    /\ reg = NoReg /\ gop = NoGop
    /\ fd = NoFd /\ req = NoReq
    /\ DiscIdle
    /\ cn = NoNode /\ sr = NoSr /\ hm = NoHm
OrderRest == UNCHANGED <<baseVars, wt, gc, mesh>>

OrderInit ==
    /\ BaseInit
    /\ wt = NoWt /\ gc = NoGc /\ mesh = NoMesh
    /\ \E r \in 1 .. MaxReplicas, h \in Hashes :
          /\ \A n \in RingNodes, i \in r .. (MaxReplicas - 1) : h[VName(i, n)] = 0
          \* the node names are interchangeable: their first virtual nodes are
          \* taken in the order of their hashes
          /\ h[VName(0, "n1")] <= h[VName(0, "n2")] /\ h[VName(0, "n2")] <= h[VName(0, "n3")]
          /\ ord = [NoOrd EXCEPT !.a = MapNew(r, h), !.b = MapNew(r, h)]

\* a.Add(node), for a node a was not given yet, before b is given anything
OrderAddFirst ==
    /\ ord.givenB = <<>>
    /\ \E node \in RingNodes \ Range(ord.givenA) :
          ord' = [ord EXCEPT !.a = MapAdd(ord.a, <<node>>), !.givenA = Append(ord.givenA, node)]
    /\ OrderRest

\* b.Add(node), for a node that a was given and b was not
OrderAddSecond ==
    /\ ord.key = ""
    /\ \E node \in Range(ord.givenA) \ Range(ord.givenB) :
          ord' = [ord EXCEPT !.b = MapAdd(ord.b, <<node>>), !.givenB = Append(ord.givenB, node)]
    /\ OrderRest

\* a.Get(key) and b.Get(key), once both were given the same nodes
OrderGet ==
    /\ ord.givenA # <<>>
    /\ Range(ord.givenA) = Range(ord.givenB)
    /\ \E key \in RingKeys :
          ord' = [ord EXCEPT !.key = key, !.gotA = MapGet(ord.a, key), !.gotB = MapGet(ord.b, key)]
    /\ OrderRest

OrderNext == OrderAddFirst \/ OrderAddSecond \/ OrderGet

SpecOrder == OrderInit /\ [][OrderNext]_vars

\* The virtual nodes of the nodes a Map was given have hashes of their own.
NoCollision(mp, given) ==
    \A s, t \in {VName(i, n) : i \in 0 .. (mp.replicas - 1), n \in Range(given)} :
        s # t => mp.hash[s] # mp.hash[t]
\* C40: two Maps with the same replica count and hash function that were given
\* the same set of nodes through Add in different orders return the same node
\* from Get for every key, also when virtual-node hashes of different nodes
\* collide.
C40_OrderIndependent == ord.key # "" => ord.gotA = ord.gotB
\* The same for the rings on which no two virtual nodes share a hash.
C40_DistinctHashesAgree ==
    (ord.key # "" /\ NoCollision(ord.a, ord.givenA)) => ord.gotA = ord.gotB
\* Both Maps were given the same nodes in different orders, two virtual nodes
\* of different nodes share a hash, and the two Gets disagree.
C40_Disagree ==
    /\ ord.key # "" /\ ord.givenA # ord.givenB
    /\ ~NoCollision(ord.a, ord.givenA)
    /\ ord.gotA # ord.gotB
\* Different orders on a ring without collisions.
C40_OrdersDiffer ==
    /\ ord.key # "" /\ ord.givenA # ord.givenB /\ Len(ord.givenA) = 3
    /\ NoCollision(ord.a, ord.givenA)

\* ---------------------------------------------------------------------------
\* SpecWatch: the goroutine that ServiceWatcher.Watch starts, the two
\* channels it returns, the context, and the caller that reads the channels
\* until the context is cancelled. updatesChan is unbuffered, errChan has
\* room for one error.
\* ---------------------------------------------------------------------------
ErrCap == 1
MaxWatchEvents == 3
WatchRest == UNCHANGED <<baseVars, ord, gc, mesh>>

WatchInit ==
    /\ BaseInit
    /\ ord = NoOrd /\ gc = NoGc /\ mesh = NoMesh
    /\ wt = NoWt

\* syncPeers: sw.cli.Get(ctx, prefix) returns; with a cancelled context it
\* returns the context's error.
WtSyncGet ==
    /\ wt.pc = "sync"
    /\ \E ok \in IF wt.cancelled THEN {FALSE} ELSE BOOLEAN :
          wt' = [wt EXCEPT !.pc = IF ok THEN "send" ELSE "errsend"]
    /\ WatchRest

\* syncPeers: case updatesChan <- peers, taken by the caller's receive
WtSendUpdate ==
    /\ wt.pc = "send" /\ wt.reading
    /\ wt' = [wt EXCEPT !.pc = "loop", !.first = FALSE, !.sent = 1]
    /\ WatchRest

\* syncPeers: case <-ctx.Done(): return ctx.Err()
WtSendCancelled ==
    /\ wt.pc = "send" /\ wt.cancelled
    /\ wt' = [wt EXCEPT !.pc = "errsend"]
    /\ WatchRest

\* errChan <- err: proceeds when the buffer has room. After the first
\* syncPeers the goroutine returns, in the loop it goes on.
WtErrSend ==
    /\ wt.pc = "errsend" /\ wt.errs < ErrCap
    /\ wt' = [wt EXCEPT !.errs = @ + 1, !.pc = IF wt.first THEN "exit" ELSE "loop"]
    /\ WatchRest

\* case wresp, ok := <-wch with ok: a watch error, a response with events,
\* or one without.
WtEvent ==
    /\ wt.pc = "loop" /\ wt.events < MaxWatchEvents
    /\ \E kind \in {"error", "changes", "empty"} :
          wt' = [wt EXCEPT !.events = @ + 1,
                           !.pc = CASE kind = "error" -> "errsend"
                                    [] kind = "changes" -> "sync"
                                    [] OTHER -> "loop"]
    /\ WatchRest

\* case wresp, ok := <-wch with !ok: return
WtWatchClosed ==
    /\ wt.pc = "loop"
    /\ wt' = [wt EXCEPT !.pc = "exit"]
    /\ WatchRest

\* case <-ctx.Done(): return
WtCtxDone ==
    /\ wt.pc = "loop" /\ wt.cancelled
    /\ wt' = [wt EXCEPT !.pc = "exit"]
    /\ WatchRest

\* the deferred close(errChan) and close(updatesChan)
WtExit ==
    /\ wt.pc = "exit"
    /\ wt' = [wt EXCEPT !.pc = "done", !.closedU = TRUE, !.closedE = TRUE]
    /\ WatchRest

\* the caller cancels the context
WtCancel ==
    /\ ~wt.cancelled
    /\ wt' = [wt EXCEPT !.cancelled = TRUE]
    /\ WatchRest

\* the caller's loop: case err := <-errChan
WtConsumerErr ==
    /\ wt.reading /\ wt.errs > 0
    /\ wt' = [wt EXCEPT !.errs = @ - 1]
    /\ WatchRest

\* the caller's loop: case <-ctx.Done(): return
WtConsumerStop ==
    /\ wt.reading /\ wt.cancelled
    /\ wt' = [wt EXCEPT !.reading = FALSE]
    /\ WatchRest

WatchNext ==
    \/ WtSyncGet \/ WtSendUpdate \/ WtSendCancelled \/ WtErrSend \/ WtEvent \/ WtWatchClosed
    \/ WtCtxDone \/ WtExit \/ WtCancel \/ WtConsumerErr \/ WtConsumerStop

SpecWatch == WatchInit /\ [][WatchNext]_vars
\* The goroutine is scheduled: a step of it that stays possible is taken. The
\* etcd call returns, a send on a channel with room and a receive from a
\* closed context proceed, the deferred closes run.
WatchFairness ==
    /\ WF_vars(WtSyncGet) /\ WF_vars(WtSendCancelled) /\ WF_vars(WtErrSend)
    /\ WF_vars(WtCtxDone) /\ WF_vars(WtExit)
SpecWatchFair == SpecWatch /\ WatchFairness

WatchClosed == wt.pc = "done" /\ wt.closedU /\ wt.closedE
\* C33: after the context passed to Watch is cancelled, the watcher task
\* eventually terminates and closes the updates stream and the errors stream,
\* in every execution, also when watch errors or a snapshot are pending
\* delivery and the consumer has stopped reading.
C33_CancelTerminates == wt.cancelled ~> WatchClosed
\* The same in a finite run: after the cancellation the goroutine is never at
\* a send that nothing will take.
C33_NotStuckAfterCancel ==
    ~(wt.cancelled /\ ~wt.reading /\ wt.pc = "errsend" /\ wt.errs = ErrCap)
\* The first snapshot, pending when the context is cancelled and the caller
\* has stopped reading, does not hold the goroutine: the send in syncPeers
\* selects on ctx.Done(), and errChan is still empty.
C33_PendingSnapshotTerminates ==
    (wt.cancelled /\ ~wt.reading /\ wt.pc = "send" /\ wt.first) ~> WatchClosed

\* ---------------------------------------------------------------------------
\* SpecClose: one GRPCGetter of the front-door. Requests pick it while it is
\* in nodeGetters and call GetByProto on it after pickNode has released
\* h.mu; UpdatePeers, for a snapshot without the node, closes it. The getter
\* has no lock of its own: the steps are its field reads and writes.
\* ---------------------------------------------------------------------------
MaxDials == 3
CloseRest == UNCHANGED <<baseVars, ord, wt, mesh>>

CloseInit ==
    /\ BaseInit
    /\ ord = NoOrd /\ wt = NoWt /\ mesh = NoMesh
    /\ gc = NoGc

\* GRPCGetter.Close on the getter g: the connection is closed, conn and
\* client are nil.
GetterClose(g) ==
    [g EXCEPT !.open = @ \ {g.conn}, !.conn = 0, !.client = FALSE]

\* pickNode returns the getter to a request; it is in nodeGetters.
GcPick(r) ==
    /\ gc.rq[r].pc = "idle" /\ ~gc.removed
    /\ gc' = [gc EXCEPT !.rq[r].pc = "ensure"]

\* ensureConnection, first and after the failed call: nothing to do with a
\* client, else grpc.Dial, which connects or fails.
GcEnsure(r) ==
    /\ gc.rq[r].pc \in {"ensure", "reensure"}
    /\ LET next == IF gc.rq[r].pc = "ensure" THEN "call" ELSE "retry" IN
       IF gc.client
       THEN gc' = [gc EXCEPT !.rq[r].pc = next]
       ELSE \E ok \in BOOLEAN :
              IF ok
              THEN /\ gc.dialed < MaxDials
                   /\ gc' = [gc EXCEPT !.dialed = @ + 1, !.conn = gc.dialed + 1,
                                       !.open = @ \cup {gc.dialed + 1}, !.client = TRUE,
                                       !.late = @ \/ gc.removed, !.rq[r].pc = next]
              ELSE gc' = [gc EXCEPT !.rq[r].pc = "done", !.rq[r].out = "error"]

\* g.client.Get(ctx, req) is called: on a nil client it panics, else the RPC
\* goes out on the client's connection.
GcCall(r) ==
    /\ gc.rq[r].pc \in {"call", "retry"}
    /\ IF ~gc.client
       THEN gc' = [gc EXCEPT !.rq[r].pc = "done", !.rq[r].out = "panic", !.onNil = TRUE]
       ELSE gc' = [gc EXCEPT !.rq[r].pc = IF gc.rq[r].pc = "call" THEN "rpc" ELSE "rpc2",
                             !.rq[r].using = gc.conn,
                             !.onClosed = @ \/ gc.conn \notin gc.open]

\* the RPC returns: a reply, or an error; on a closed connection an error.
GcRpc(r) ==
    /\ gc.rq[r].pc \in {"rpc", "rpc2"}
    /\ \E ok \in IF gc.rq[r].using \in gc.open THEN BOOLEAN ELSE {FALSE} :
          IF ok THEN gc' = [gc EXCEPT !.rq[r].pc = "done", !.rq[r].out = "value"]
          ELSE IF gc.rq[r].pc = "rpc" THEN gc' = [gc EXCEPT !.rq[r].pc = "reclose"]
          ELSE gc' = [gc EXCEPT !.rq[r].pc = "done", !.rq[r].out = "error"]

\* after the failed call: g.Close()
GcReclose(r) ==
    /\ gc.rq[r].pc = "reclose"
    /\ gc' = [GetterClose(gc) EXCEPT !.rq[r].pc = "reensure"]

\* UpdatePeers, for peers without the node: the getter is not in newGetters,
\* grpcGetter.Close() is called and closes g.conn if there is one.
GcUpdateClose ==
    /\ gc.up = "idle"
    /\ gc' = [gc EXCEPT !.removed = TRUE, !.open = @ \ {gc.conn},
                        !.up = IF gc.conn = 0 THEN "done" ELSE "closing"]

\* Close: g.conn = nil; g.client = nil
GcUpdateNil ==
    /\ gc.up = "closing"
    /\ gc' = [gc EXCEPT !.conn = 0, !.client = FALSE, !.up = "done"]

ClPick == (\E r \in GcReqs : GcPick(r)) /\ CloseRest
ClEnsure == (\E r \in GcReqs : GcEnsure(r)) /\ CloseRest
ClCall == (\E r \in GcReqs : GcCall(r)) /\ CloseRest
ClRpc == (\E r \in GcReqs : GcRpc(r)) /\ CloseRest
ClReclose == (\E r \in GcReqs : GcReclose(r)) /\ CloseRest
ClUpdateClose == GcUpdateClose /\ CloseRest
ClUpdateNil == GcUpdateNil /\ CloseRest

CloseNext ==
    ClPick \/ ClEnsure \/ ClCall \/ ClRpc \/ ClReclose \/ ClUpdateClose \/ ClUpdateNil

SpecClose == CloseInit /\ [][CloseNext]_vars

\* C32: a client that UpdatePeers closed because its node left the snapshot
\* never opens a new connection after the close, and a request that picked
\* it before the update completes on the open connection or fails without
\* touching a closed or nil connection.
C32_ClosedClientStaysClosed ==
    gc.removed => (~gc.late /\ ~gc.onNil /\ ~gc.onClosed)
\* What is left when all is over: the getter is out of nodeGetters, no
\* request runs, and a connection it dialed is open.
C32_Leaked ==
    /\ gc.up = "done" /\ \A r \in GcReqs : gc.rq[r].pc \in {"idle", "done"}
    /\ gc.open # {}
\* A request found the client nil at its call, after UpdatePeers closed it.
C32_NilClient == gc.removed /\ gc.onNil
\* The half that holds: no request picks the getter after the update.
C32_PickStep ==
    \A r \in GcReqs : (gc.rq[r].pc = "idle" /\ gc'.rq[r].pc # "idle") => ~gc.removed
C32_NoPickAfterUpdate == [][C32_PickStep]_vars

\* ---------------------------------------------------------------------------
\* SpecMesh: two cache nodes. Each has a Group with an HTTPPool as its
\* PeerPicker; the pool's peers are set from a list of the addresses that the
\* nodes registered in etcd. A Get that misses runs load under single-flight:
\* PickPeer, then the peer's handler (which calls Group.Get on the peer) or
\* the local origin. One key is followed.
\* ---------------------------------------------------------------------------
MaxMeshGets == 2
MaxSets == 3
PoolReplicas == 2
MeshKeys == {"a", "bb"}
MeshRest == UNCHANGED <<baseVars, ord, wt, gc>>

\* The address a node registers in etcd (cachenode: grpcAddr), and the one
\* it gives to NewHTTPPool: the same address when the pool is used as its own
\* server, httpAddr in cmd/cachenode.
RegisteredAddr(n) == n
HttpAddr(n) == CASE n = "n1" -> "n1:http" [] n = "n2" -> "n2:http"
PoolSelf(wiring, n) == IF wiring = "pool" THEN RegisteredAddr(n) ELSE HttpAddr(n)

\* HTTPPool.Set(peers...): the ring of the pool
PoolRing(peers) == MapAdd(MapNew(PoolReplicas, Crc32), SeqOfSet(peers))
\* HTTPPool.PickPeer(key): the peer, or "" for `nil, false`
PickPeer(self, peers, key) ==
    LET peer == MapGet(PoolRing(peers), key) IN
    IF peer # "" /\ peer # self THEN peer ELSE ""

MeshInit ==
    /\ BaseInit
    /\ ord = NoOrd /\ wt = NoWt /\ gc = NoGc
    /\ \E wiring \in {"pool", "cachenode"}, key \in MeshKeys :
          mesh = [NoMesh EXCEPT !.wiring = wiring, !.key = key]

\* updatePeers: pool.Set with the list from the front-door, some of the
\* registered addresses
MeshSet(n) ==
    /\ mesh.sets < MaxSets
    /\ \E peers \in SUBSET {RegisteredAddr(x) : x \in MeshNodes} :
          mesh' = [mesh EXCEPT !.view[n] = peers, !.sets = @ + 1]

\* a request of the front-door: Group.Get on node n misses and no load is
\* in flight, so load starts one
MeshGet(n) ==
    /\ mesh.gets < MaxMeshGets
    /\ mesh.st[n] = "none" /\ ~mesh.cached[n]
    /\ mesh' = [mesh EXCEPT !.st[n] = "pick", !.gets = @ + 1]

\* load: g.peers.PickPeer(key); with a peer getFromPeerWithProto is called
MeshPick(n) ==
    /\ mesh.st[n] = "pick"
    /\ LET peer == PickPeer(PoolSelf(mesh.wiring, n), mesh.view[n], mesh.key) IN
       IF peer = "" THEN mesh' = [mesh EXCEPT !.st[n] = "local"]
       ELSE mesh' = [mesh EXCEPT !.st[n] = "rpc", !.tgt[n] = peer,
                                 !.own = @ \/ peer = RegisteredAddr(n)]

\* the request reaches the peer's handler, which calls Group.Get: a cached
\* value is answered at once; else the handler is in load, on a new call or
\* waiting for the one in flight
MeshServe(n) ==
    /\ mesh.st[n] = "rpc" /\ mesh.wiring = "pool"
    /\ LET p == mesh.tgt[n] IN
       IF mesh.cached[p]
       THEN mesh' = [mesh EXCEPT !.st[n] = "none", !.gen[n] = @ + 1]
       ELSE mesh' = [mesh EXCEPT !.st[n] = "wait", !.wgen[n] = mesh.gen[p],
                                 !.st[p] = IF @ = "none" THEN "pick" ELSE @]

\* the request is not served (the peer is down; in cmd/cachenode the address
\* is the peer's gRPC port): load goes on to getLocally
MeshRefused(n) ==
    /\ mesh.st[n] = "rpc"
    /\ mesh' = [mesh EXCEPT !.st[n] = "local"]

\* getLocally: the origin's value is cached, the call is over
MeshLocal(n) ==
    /\ mesh.st[n] = "local"
    /\ mesh' = [mesh EXCEPT !.st[n] = "none", !.cached[n] = TRUE, !.gen[n] = @ + 1]

\* the peer's call is over, its handler answers, the call is over
MeshReply(n) ==
    /\ mesh.st[n] = "wait" /\ mesh.gen[mesh.tgt[n]] > mesh.wgen[n]
    /\ mesh' = [mesh EXCEPT !.st[n] = "none", !.gen[n] = @ + 1]

MsSet == (\E n \in MeshNodes : MeshSet(n)) /\ MeshRest
MsGet == (\E n \in MeshNodes : MeshGet(n)) /\ MeshRest
MsPick == (\E n \in MeshNodes : MeshPick(n)) /\ MeshRest
MsServe == (\E n \in MeshNodes : MeshServe(n)) /\ MeshRest
MsRefused == (\E n \in MeshNodes : MeshRefused(n)) /\ MeshRest
MsLocal == (\E n \in MeshNodes : MeshLocal(n)) /\ MeshRest
MsReply == (\E n \in MeshNodes : MeshReply(n)) /\ MeshRest

MeshNext == MsSet \/ MsGet \/ MsPick \/ MsServe \/ MsRefused \/ MsLocal \/ MsReply

SpecMesh == MeshInit /\ [][MeshNext]_vars

\* The call of n waits for the call of p, which is not over.
WaitsFor(n, p) == mesh.st[n] = "wait" /\ mesh.tgt[n] = p /\ mesh.wgen[n] = mesh.gen[p]
\* C37: forwarding between nodes never forms a circular wait: for any pair of
\* ring views of two nodes, a Get that forwards a key to a peer never ends up
\* blocked on an in-flight single-flight call of its own node for that key.
C37_NoCircularWait ==
    \A n, p \in MeshNodes : ~(WaitsFor(n, p) /\ WaitsFor(p, n))
\* The views that lead there: each node's ring sends the key to the other.
C37_CrossedViews ==
    \E n, p \in MeshNodes :
        /\ n # p /\ WaitsFor(n, p) /\ WaitsFor(p, n)
        /\ PickPeer(PoolSelf(mesh.wiring, n), mesh.view[n], mesh.key) = p
        /\ PickPeer(PoolSelf(mesh.wiring, p), mesh.view[p], mesh.key) = n
\* With one view on both nodes, and each node in it, the key has one owner
\* and no call waits for a call that waits for it.
C37_SameViewNoCycle ==
    (\A n \in MeshNodes : mesh.view[n] = MeshNodes /\ mesh.sets = Cardinality(MeshNodes)) =>
        C37_NoCircularWait

\* C38: a node never issues a peer RPC for a key that the ring maps to the
\* node itself: with the list of the registered addresses PickPeer returns no
\* peer for such a key and the value is loaded from the local origin.
C38_NoRpcToSelf == ~mesh.own
\* The same when the pool is given the address the node registered.
C38_PoolWiringNoRpcToSelf == mesh.wiring = "pool" => ~mesh.own
\* cmd/cachenode: the node is the owner in its own ring and has sent the
\* request to its own registered address.
C38_OwnAddressPicked ==
    \E n \in MeshNodes :
        /\ mesh.wiring = "cachenode" /\ mesh.own
        /\ mesh.st[n] = "rpc" /\ mesh.tgt[n] = RegisteredAddr(n)

====
